---- MODULE Spec2Model ----
(***************************************************************************)
(* FakeAPI: the dispatcher of user-defined fake HTTP endpoints             *)
(* (src/app/api/fake/[...path]/route.ts), the helpers it uses              *)
(* (lib/tokenUtils.ts, lib/urlUtils.ts) and the management handlers that   *)
(* write the project registry (api/projects routes).                       *)
(*                                                                         *)
(* Strings are sequences of one-character strings, so that lower-casing,   *)
(* character replacement, splitting and concatenation are computed the way *)
(* the code computes them.                                                 *)
(***************************************************************************)
EXTENDS Naturals, Sequences, FiniteSets

VARIABLES universe, projects, last, page

vars == <<universe, projects, last, page>>

(***************************************************************************)
(* Bounds of the model.                                                    *)
(***************************************************************************)
MaxNameLen == 3

(***************************************************************************)
(* Characters and string helpers (JavaScript String semantics).            *)
(***************************************************************************)
UpperCase == <<"A","B","C","D","E","F","G","H","I","J","K","L","M",
               "N","O","P","Q","R","S","T","U","V","W","X","Y","Z">>

LowerCase == <<"a","b","c","d","e","f","g","h","i","j","k","l","m",
               "n","o","p","q","r","s","t","u","v","w","x","y","z">>

Digits == {"0","1","2","3","4","5","6","7","8","9"}

LowerLetters == {LowerCase[i] : i \in 1..26}

UpperLetters == {UpperCase[i] : i \in 1..26}

\* JavaScript null, for a value that is otherwise a string: a one-element
\* sequence whose element is no character
Null == <<"null-value">>

\* JavaScript undefined, likewise
Undefined == <<"undefined-value">>

\* the truthiness of a string-or-null value: null, undefined and "" are falsy
Truthy(v) == v /= Null /\ v /= Undefined /\ v /= <<>>

\* v || d
OrDefault(v, d) == IF Truthy(v) THEN v ELSE d

\* String.prototype.toLowerCase, one character
toLowerCaseChar(c) ==
  IF c \in UpperLetters
    THEN LowerCase[CHOOSE i \in 1..26 : UpperCase[i] = c]
    ELSE c

\* String.prototype.toLowerCase
toLowerCase(s) == [i \in 1..Len(s) |-> toLowerCaseChar(s[i])]

\* s.replace(/[^a-z0-9]/g, '-')
replaceNonAlnum(s) ==
  [i \in 1..Len(s) |-> IF s[i] \in LowerLetters \cup Digits THEN s[i] ELSE "-"]

\* the positions at which sep occurs in s
Occurrences(s, sep) ==
  {i \in 1..(Len(s) + 1 - Len(sep)) : SubSeq(s, i, i + Len(sep) - 1) = sep}

Min(S) == CHOOSE x \in S : \A y \in S : x <= y

RECURSIVE split(_, _)
\* String.prototype.split with a non-empty separator string
split(s, sep) ==
  IF Occurrences(s, sep) = {}
    THEN <<s>>
    ELSE LET i == Min(Occurrences(s, sep))
         IN  <<SubSeq(s, 1, i - 1)>> \o split(SubSeq(s, i + Len(sep), Len(s)), sep)

RECURSIVE trim(_)
\* leading and trailing spaces removed (normalisation of a header value)
trim(s) ==
  IF s = <<>> THEN s
  ELSE IF Head(s) = " " THEN trim(Tail(s))
  ELSE IF s[Len(s)] = " " THEN trim(SubSeq(s, 1, Len(s) - 1))
  ELSE s

(***************************************************************************)
(* lib/urlUtils.ts                                                         *)
(***************************************************************************)
\* a slug that keeps upper-case letters
generateProjectSlug_NoLower(projectName) == replaceNonAlnum(projectName)

generateProjectSlug(projectName) == replaceNonAlnum(toLowerCase(projectName))

(***************************************************************************)
(* lib/tokenUtils.ts                                                       *)
(***************************************************************************)
\* a parser that returns the first part instead of the second
extractTokenFromHeader_FirstPart(authHeader, prefix) ==
  IF ~Truthy(authHeader) THEN Null
  ELSE LET parts == split(authHeader, <<" ">>)
       IN  IF Len(parts) /= 2 \/ parts[1] /= prefix THEN Null ELSE parts[1]

\* a parser that ignores the prefix of the header
extractTokenFromHeader_AnyPrefix(authHeader, prefix) ==
  IF ~Truthy(authHeader) THEN Null
  ELSE LET parts == split(authHeader, <<" ">>)
       IN  IF Len(parts) /= 2 THEN Null ELSE parts[2]

extractTokenFromHeader(authHeader, prefix) ==
  IF ~Truthy(authHeader) THEN Null
  ELSE LET parts == split(authHeader, <<" ">>)
       IN  IF Len(parts) /= 2 \/ parts[1] /= prefix THEN Null ELSE parts[2]

formatAuthHeader(token, prefix) == prefix \o <<" ">> \o token

\* String.prototype.startsWith('/')
startsWithSlash(s) == Len(s) > 0 /\ s[1] = "/"

\* urlUtils.generateEndpointUrl: the URL after its origin (NEXT_PUBLIC_BASE_URL
\* or window.location.origin), /api/fake/{slug}{cleanBaseUrl}{cleanEndpointPath}
generateEndpointUrl(projectName, baseUrl, endpointPath) ==
  <<"/","a","p","i","/","f","a","k","e","/">>
    \o generateProjectSlug(projectName)
    \o (IF startsWithSlash(baseUrl) THEN baseUrl ELSE <<"/">> \o baseUrl)
    \o (IF startsWithSlash(endpointPath) THEN endpointPath ELSE <<"/">> \o endpointPath)

(***************************************************************************)
(* The platform the dispatcher runs on: URL, Headers, Response, JSON.      *)
(***************************************************************************)
\* characters the URL parser percent-encodes in a path
PathEncodeSet == {" ", "{", "}"}

percentEncodeChar(c) ==
  IF c = " " THEN <<"%","2","0">>
  ELSE IF c = "{" THEN <<"%","7","B">>
  ELSE IF c = "}" THEN <<"%","7","D">>
  ELSE <<c>>

RECURSIVE percentEncode(_)
percentEncode(s) ==
  IF s = <<>> THEN <<>> ELSE percentEncodeChar(Head(s)) \o percentEncode(Tail(s))

\* new URL(url).pathname: the query string is cut off, the path is encoded
urlPathname(target) ==
  LET q == Occurrences(target, <<"?">>)
      p == IF q = {} THEN target ELSE SubSeq(target, 1, Min(q) - 1)
  IN  percentEncode(p)

\* the characters of an HTTP header name (RFC 7230 token), among those of the model
TChar == LowerLetters \cup UpperLetters \cup Digits \cup {"-", "_", "."}

\* Headers.get throws a TypeError for a name that is no token
IsValidHeaderName(name) ==
  name /= <<>> /\ \A i \in 1..Len(name) : name[i] \in TChar

\* Headers.get for a valid name: case-insensitive, value trimmed, null if absent
headersGet(headers, name) ==
  LET hit == {h \in headers : toLowerCase(h.name) = toLowerCase(name)}
  IN  IF hit = {} THEN Null ELSE trim((CHOOSE h \in hit : TRUE).value)

\* statuses for which the Response constructor throws when given a body
NullBodyStatus == {101, 103, 204, 205, 304}

\* new Response(body, {status}) with a non-null body does not throw
ResponseInitOk(status) == status \in 200..599 /\ status \notin NullBodyStatus

RECURSIVE stripSpaces(_)
stripSpaces(s) ==
  IF s = <<>> THEN <<>>
  ELSE IF Head(s) = " " THEN stripSpaces(Tail(s))
  ELSE <<Head(s)>> \o stripSpaces(Tail(s))

\* JSON.parse succeeds, for the stored bodies of the model: an integer, {}, []
\* with insignificant spaces around or inside
JsonParses(s) ==
  LET t == stripSpaces(s)
  IN  \/ t = <<"{","}">>
      \/ t = <<"[","]">>
      \/ /\ t /= <<>>
         /\ \A i \in 1..Len(t) : t[i] \in Digits
         /\ (Len(t) > 1 => t[1] /= "0")
         /\ trim(s) = t

\* JSON.stringify(JSON.parse(s)) for such a body
JsonCanonical(s) == stripSpaces(s)

(***************************************************************************)
(* app/api/fake/[...path]/route.ts: the dispatcher.                        *)
(*                                                                         *)
(* A project is [_id, user, name, baseUrl, authentication, endpoints]; an  *)
(* endpoint is [path, method, statusCode, responseBody, requiresAuth] with *)
(* requiresAuth one of "true", "false", "null"; authentication is          *)
(* [enabled, token, headerName, tokenPrefix], or NoAuthentication for a    *)
(* document stored before the schema had the field.                        *)
(* A request is [method, path, headers, dbFail]: path is what follows the  *)
(* mount point /api/fake in the URL, dbFail says whether connecting to or  *)
(* reading the database throws during this request.                        *)
(***************************************************************************)
NoAuthentication == [absent |-> TRUE]

HasAuthentication(project) == "enabled" \in DOMAIN project.authentication

DefaultHeaderName == <<"A","u","t","h","o","r","i","z","a","t","i","o","n">>

DefaultTokenPrefix == <<"B","e","a","r","e","r">>

MountPoint == <<"/","a","p","i","/","f","a","k","e">>

\* request.url's path: the route is mounted at /api/fake/[...path]
requestUrl(request) == MountPoint \o request.path

\* projectName.toLowerCase().replace(/[^a-z0-9]/g, '-'), as matchEndpoint has it
cleanProjectName(projectName) == replaceNonAlnum(toLowerCase(projectName))

\* a matcher that compares case-insensitively
matchEndpoint_IgnoreCase(requestPath, projectName, baseUrl, endpointPath) ==
  LET expectedPath == <<"/">> \o cleanProjectName(projectName) \o baseUrl \o endpointPath
  IN  toLowerCase(requestPath) = toLowerCase(expectedPath)

matchEndpoint(requestPath, projectName, baseUrl, endpointPath) ==
  LET expectedPath == <<"/">> \o cleanProjectName(projectName) \o baseUrl \o endpointPath
  IN  requestPath = expectedPath

CorsHeaders ==
  [allowOrigin  |-> "*",
   allowMethods |-> "GET, POST, PUT, PATCH, DELETE, OPTIONS",
   allowHeaders |-> "Content-Type, Authorization, X-Requested-With, Accept, Origin",
   maxAge       |-> "86400"]

\* a response returned as it was built
addCorsHeaders_Skip(response) == response

\* function addCorsHeaders: the four headers are set on the response
addCorsHeaders(response) == [response EXCEPT !.cors = CorsHeaders]

\* NextResponse.json(body, {status}) and new NextResponse(body, {status, headers})
Response(status, contentType, body) ==
  [status |-> status, contentType |-> contentType, body |-> body, cors |-> [none |-> TRUE]]

\* what handleRequest returns, with the place it returned from: the pair it
\* matched (<<>> if none), what its auth gate did and what it emitted
Outcome(response, fullPath, matched, gate, emitted) ==
  [response |-> response, fullPath |-> fullPath, matched |-> matched,
   gate |-> gate, emitted |-> emitted]

\* a catch that answers as if nothing was registered
internalServerError_AsNotFound(fullPath, matched, gate) ==
  Outcome(addCorsHeaders(Response(404, "application/json",
                                  [error |-> "Endpoint not found"])),
          fullPath, matched, gate, "404")

\* the outer catch: 500 Internal server error
internalServerError(fullPath, matched, gate) ==
  Outcome(addCorsHeaders(Response(500, "application/json",
                                  [error |-> "Internal server error"])),
          fullPath, matched, gate, "fault")

\* project.authentication?.enabled || false
projectAuthEnabled(project) ==
  IF HasAuthentication(project) THEN project.authentication.enabled ELSE FALSE

\* an effective requirement that ignores the endpoint's override
endpointRequiresAuth_ProjectOnly(project, endpoint) == projectAuthEnabled(project)

\* endpoint.requiresAuth !== null ? endpoint.requiresAuth : projectAuthEnabled
endpointRequiresAuth(project, endpoint) ==
  IF endpoint.requiresAuth /= "null"
    THEN endpoint.requiresAuth = "true"
    ELSE projectAuthEnabled(project)

\* project.authentication?.headerName || 'Authorization'
authHeaderName(project) ==
  IF HasAuthentication(project)
    THEN OrDefault(project.authentication.headerName, DefaultHeaderName)
    ELSE DefaultHeaderName

\* project.authentication?.tokenPrefix || 'Bearer'
authTokenPrefix(project) ==
  IF HasAuthentication(project)
    THEN OrDefault(project.authentication.tokenPrefix, DefaultTokenPrefix)
    ELSE DefaultTokenPrefix

\* project.authentication?.token
authToken(project) ==
  IF HasAuthentication(project) THEN project.authentication.token ELSE Undefined

\* the token the request provides for this project
providedToken(project, request) ==
  extractTokenFromHeader(
    OrDefault(headersGet(request.headers, authHeaderName(project)), <<>>),
    authTokenPrefix(project))

\* a gate that omits the check for a missing token
tokenRejected_NoEmptyCheck(provided, token) == provided /= token

\* !providedToken || providedToken !== project.authentication?.token
tokenRejected(provided, token) == ~Truthy(provided) \/ provided /= token

\* a 401 that states the expected token
unauthorized_LeaksToken(project) ==
  addCorsHeaders(Response(401, "application/json",
    [error          |-> "Unauthorized",
     message        |-> "Valid authentication token required",
     requiredHeader |-> authHeaderName(project),
     tokenFormat    |-> authTokenPrefix(project) \o <<" ">> \o authToken(project)]))

\* the 401 of a denied request
unauthorized(project) ==
  addCorsHeaders(Response(401, "application/json",
    [error          |-> "Unauthorized",
     message        |-> "Valid authentication token required",
     requiredHeader |-> authHeaderName(project),
     tokenFormat    |-> authTokenPrefix(project) \o <<" ","<","t","o","k","e","n",">">>]))

\* the endpoint's stored response: JSON if the body parses, else plain text;
\* a status the Response constructor rejects throws in the try and again in
\* its catch, and so reaches the outer catch
emit(endpoint, fullPath, matched, gate) ==
  IF ~ResponseInitOk(endpoint.statusCode)
    THEN internalServerError(fullPath, matched, gate)
  ELSE IF JsonParses(endpoint.responseBody)
    THEN Outcome(addCorsHeaders(Response(endpoint.statusCode, "application/json",
                   [payload |-> JsonCanonical(endpoint.responseBody)])),
                 fullPath, matched, gate, "json")
    ELSE Outcome(addCorsHeaders(Response(endpoint.statusCode, "text/plain",
                   [payload |-> endpoint.responseBody])),
                 fullPath, matched, gate, "text")

\* the body of the two loops once a pair matched: the auth gate, then emission
serve(project, endpoint, request, fullPath, matched) ==
  IF endpointRequiresAuth(project, endpoint)
    THEN IF ~IsValidHeaderName(authHeaderName(project))
           THEN internalServerError(fullPath, matched, "threw")
         ELSE IF tokenRejected(providedToken(project, request), authToken(project))
           THEN Outcome(unauthorized(project), fullPath, matched, "denied", "401")
         ELSE emit(endpoint, fullPath, matched, "allowed")
    ELSE emit(endpoint, fullPath, matched, "skipped")

\* the (project, endpoint) index pairs of the registry that match
matchingPairs(registry, fullPath, method) ==
  {m \in UNION {{<<i, j>> : j \in 1..Len(registry[i].endpoints)} :
                  i \in 1..Len(registry)} :
     /\ matchEndpoint(fullPath, registry[m[1]].name, registry[m[1]].baseUrl,
                      registry[m[1]].endpoints[m[2]].path)
     /\ registry[m[1]].endpoints[m[2]].method = method}

Before(m, n) == m[1] < n[1] \/ (m[1] = n[1] /\ m[2] <= n[2])

\* a scan that keeps the last match instead of returning at the first
firstMatch_Last(pairs) == CHOOSE m \in pairs : \A n \in pairs : Before(n, m)

\* the pair at which the two nested loops return
firstMatch(pairs) == CHOOSE m \in pairs : \A n \in pairs : Before(m, n)

handleRequest(registry, request, method) ==
  IF request.dbFail
    THEN internalServerError(<<>>, <<>>, "none")
  ELSE
    LET pathSegments == split(urlPathname(requestUrl(request)), MountPoint \o <<"/">>)
    IN  IF Len(pathSegments) < 2
          THEN Outcome(addCorsHeaders(Response(404, "application/json",
                         [error |-> "Invalid API path"])),
                       <<>>, <<>>, "none", "404")
        ELSE
          LET fullPath == <<"/">> \o pathSegments[2]
              pairs    == matchingPairs(registry, fullPath, method)
          IN  IF pairs = {}
                THEN Outcome(addCorsHeaders(Response(404, "application/json",
                               [error  |-> "Endpoint not found",
                                path   |-> fullPath,
                                method |-> method])),
                             fullPath, <<>>, "none", "404")
                ELSE LET m == firstMatch(pairs)
                     IN  serve(registry[m[1]], registry[m[1]].endpoints[m[2]],
                               request, fullPath, m)

\* a preflight sent through the handler of the other methods
handleOptions_ViaHandler(request) == handleRequest(<<>>, request, "OPTIONS")

\* export async function OPTIONS: no registry access
handleOptions(request) ==
  Outcome(addCorsHeaders(Response(200, "none", [none |-> TRUE])),
          <<>>, <<>>, "none", "preflight")

(***************************************************************************)
(* lib/models.ts (ApiProjectSchema) and the management handlers            *)
(* app/api/projects/route.ts, app/api/projects/[id]/route.ts.              *)
(***************************************************************************)
Methods == {"GET", "POST", "PUT", "PATCH", "DELETE"}

NoSession == "no-session"

InvalidId == 0

\* the schema's validators: required strings are non-empty, method is in the enum
SchemaValid(project) ==
  /\ project.name /= <<>>
  /\ project.baseUrl /= <<>>
  /\ \A j \in 1..Len(project.endpoints) :
       /\ project.endpoints[j].path /= <<>>
       /\ project.endpoints[j].method \in Methods

\* an ObjectId no stored project has
FreshId(registry) ==
  Min({n \in 1..(Len(registry) + 1) : \A i \in 1..Len(registry) : registry[i]._id /= n})

\* the position of the project with this id and owner, 0 if there is none
FindOwned(registry, id, user) ==
  IF \E i \in 1..Len(registry) : registry[i]._id = id /\ registry[i].user = user
    THEN CHOOSE i \in 1..Len(registry) : registry[i]._id = id /\ registry[i].user = user
    ELSE 0

\* PUT's duplicate check: two entries of the body with the same method:path key
HasDuplicateEndpoint(endpoints) ==
  \E j, k \in 1..Len(endpoints) :
     j < k /\ endpoints[j].method = endpoints[k].method
           /\ endpoints[j].path = endpoints[k].path

\* an update that writes the body as it came
applyUpdate_Spread(project, body) ==
  [project EXCEPT
     !.name           = IF "name" \in body.present THEN body.name ELSE @,
     !.baseUrl        = IF "baseUrl" \in body.present THEN body.baseUrl ELSE @,
     !.endpoints      = IF "endpoints" \in body.present THEN body.endpoints ELSE @,
     !.authentication = IF "authentication" \in body.present
                          THEN body.authentication ELSE @,
     !.user           = IF "user" \in body.present THEN body.user ELSE @,
     !._id            = IF "_id" \in body.present THEN body._id ELSE @]

\* the update object: only name, baseUrl, endpoints and authentication, each
\* if the body provides it
applyUpdate(project, body) ==
  [project EXCEPT
     !.name           = IF "name" \in body.present THEN body.name ELSE @,
     !.baseUrl        = IF "baseUrl" \in body.present THEN body.baseUrl ELSE @,
     !.endpoints      = IF "endpoints" \in body.present THEN body.endpoints ELSE @,
     !.authentication = IF "authentication" \in body.present
                          THEN body.authentication ELSE @]

RemoveAt(seq, i) == SubSeq(seq, 1, i - 1) \o SubSeq(seq, i + 1, Len(seq))

\* the body has no user field
NoUserField == "no-user-field"

\* the schema's default for a project stored without authentication, as the
\* handlers that return projects fill it in
withAuthentication(project) ==
  IF project.authentication = NoAuthentication
    THEN [project EXCEPT !.authentication =
            [enabled |-> FALSE, token |-> Null,
             headerName |-> DefaultHeaderName, tokenPrefix |-> DefaultTokenPrefix]]
    ELSE project

RECURSIVE Reverse(_)
Reverse(seq) == IF seq = <<>> THEN <<>> ELSE Append(Reverse(Tail(seq)), Head(seq))

OwnedBy(registry, user) ==
  LET owned(project) == project.user = user IN SelectSeq(registry, owned)

WithAuthentication(seq) == [i \in 1..Len(seq) |-> withAuthentication(seq[i])]

\* GET /api/projects: [status, body, registry after]; the projects of the
\* session user, the last created first
getProjects(registry, session, dbFail) ==
  IF session = NoSession THEN [status |-> 401, body |-> <<>>, registry |-> registry]
  ELSE IF dbFail THEN [status |-> 500, body |-> <<>>, registry |-> registry]
  ELSE [status |-> 200, registry |-> registry,
        body |-> WithAuthentication(Reverse(OwnedBy(registry, session)))]

\* GET /api/projects/{id}: [status, body, registry after]
getProject(registry, session, id, dbFail) ==
  IF session = NoSession THEN [status |-> 401, body |-> <<>>, registry |-> registry]
  ELSE IF id = InvalidId THEN [status |-> 400, body |-> <<>>, registry |-> registry]
  ELSE IF dbFail THEN [status |-> 500, body |-> <<>>, registry |-> registry]
  ELSE LET i == FindOwned(registry, id, session)
       IN  IF i = 0 THEN [status |-> 404, body |-> <<>>, registry |-> registry]
           ELSE [status |-> 200, registry |-> registry,
                 body |-> <<withAuthentication(registry[i])>>]

\* POST /api/projects: [status, registry after]; {...data, user: session.user.id}
postProjects(registry, session, body, dbFail) ==
  IF session = NoSession THEN [status |-> 401, registry |-> registry]
  ELSE IF dbFail THEN [status |-> 500, registry |-> registry]
  ELSE LET project == [_id |-> FreshId(registry), user |-> session,
                       name |-> body.name, baseUrl |-> body.baseUrl,
                       authentication |-> body.authentication,
                       endpoints |-> body.endpoints]
       IN  IF ~SchemaValid(project)
             THEN [status |-> 500, registry |-> registry]
             ELSE [status |-> 200, registry |-> Append(registry, project)]

\* runValidators: the validators of the paths the update sets, run before
\* the query is sent
UpdateValid(body) ==
  /\ "name" \in body.present => body.name /= <<>>
  /\ "baseUrl" \in body.present => body.baseUrl /= <<>>
  /\ "endpoints" \in body.present =>
       \A j \in 1..Len(body.endpoints) :
         /\ body.endpoints[j].path /= <<>>
         /\ body.endpoints[j].method \in Methods

\* an update that looks the project up by its id alone
putProject_AnyUser(registry, session, id, body, dbFail) ==
  IF session = NoSession THEN [status |-> 401, registry |-> registry]
  ELSE IF \E i \in 1..Len(registry) : registry[i]._id = id
    THEN [status |-> 200,
          registry |-> [i \in 1..Len(registry) |->
                          IF registry[i]._id = id
                            THEN applyUpdate(registry[i], body) ELSE registry[i]]]
    ELSE [status |-> 404, registry |-> registry]

\* PUT /api/projects/{id}: [status, registry after]
putProject(registry, session, id, body, dbFail) ==
  IF session = NoSession THEN [status |-> 401, registry |-> registry]
  ELSE IF id = InvalidId THEN [status |-> 400, registry |-> registry]
  ELSE IF dbFail THEN [status |-> 500, registry |-> registry]
  ELSE IF "endpoints" \in body.present /\ HasDuplicateEndpoint(body.endpoints)
    THEN [status |-> 400, registry |-> registry]
  ELSE IF ~UpdateValid(body) THEN [status |-> 500, registry |-> registry]
  ELSE LET i == FindOwned(registry, id, session)
       IN  IF i = 0 THEN [status |-> 404, registry |-> registry]
           ELSE [status |-> 200,
                 registry |-> [registry EXCEPT ![i] = applyUpdate(@, body)]]

\* DELETE /api/projects/{id}: [status, registry after]
deleteProject(registry, session, id, dbFail) ==
  IF session = NoSession THEN [status |-> 401, registry |-> registry]
  ELSE IF id = InvalidId THEN [status |-> 400, registry |-> registry]
  ELSE IF dbFail THEN [status |-> 500, registry |-> registry]
  ELSE LET i == FindOwned(registry, id, session)
       IN  IF i = 0 THEN [status |-> 404, registry |-> registry]
           ELSE [status |-> 200, registry |-> RemoveAt(registry, i)]

(***************************************************************************)
(* The values the model draws stored data and requests from.  A universe   *)
(* fixes, for one run, the strings projects are written with and the       *)
(* requests sent.  "projects" and "endpoints" have endpoints that collide *)
(* on (method, path), in two projects and within one; "param" has a path   *)
(* with a {placeholder}; "auth-null", "auth-true" and "auth-false" vary    *)
(* the authentication settings and the request's header over one route,    *)
(* for an endpoint with that requiresAuth.                                 *)
(***************************************************************************)
\* "projects": several projects of at most one endpoint
ManyProjects == 2

FewEndpoints == 1

\* "endpoints", "param": one project of several endpoints
FewProjects == 1

ManyEndpoints == 2

\* "auth-...": one project with one endpoint
AuthMaxProjects == 1

AuthMaxEndpoints == 1

\* "conc": one project with one endpoint, and the management edits that may
\* complete while one dispatcher request is in flight
ConcMaxProjects == 1

ConcMaxEndpoints == 1

MaxInFlightEdits == 1

\* "owners": a project of one of two users, with at most two endpoints in a
\* body
OwnerMaxProjects == 1

OwnerMaxEndpoints == 2

\* "urls": one project with one endpoint
UrlMaxProjects == 1

UrlMaxEndpoints == 1

Str_Ab == <<"A"," ","b">>

Str_v == <<"/","v">>

Str_u == <<"/","u">>

Str_param == <<"/","{","i","}">>

Str_t1 == <<"t","1">>

Str_t2 == <<"t","2">>

Str_XKey == <<"X","-","K","e","y">>

Str_Tok == <<"T","o","k">>

\* the path of the URL the management page shows for name "A b", base "/v"
Str_abv == <<"/","a","-","b","/","v">>

Auth(enabled, token, headerName, tokenPrefix) ==
  [enabled |-> enabled, token |-> token,
   headerName |-> headerName, tokenPrefix |-> tokenPrefix]

Endpoint(path, method, statusCode, responseBody, requiresAuth) ==
  [path |-> path, method |-> method, statusCode |-> statusCode,
   responseBody |-> responseBody, requiresAuth |-> requiresAuth]

Header(name, value) == [name |-> name, value |-> value]

\* the authentication object the management page creates a project with
UiDefaultAuth == Auth(FALSE, Null, DefaultHeaderName, DefaultTokenPrefix)

BearerT1 == Auth(TRUE, Str_t1, DefaultHeaderName, DefaultTokenPrefix)

\* two endpoints with the same (method, path): one inherits the project's
\* authentication (enabled), the other is exempt and has a no-content status
CollidingEndpoints ==
  {Endpoint(Str_u, "GET", 200, <<" ","1">>, "null"),
   Endpoint(Str_u, "GET", 204, <<"x">>, "false")}

RoutePaths ==
  {Str_abv \o Str_u,
   Str_abv \o Str_u \o <<"/">>,
   Str_abv \o <<"/","U">>,
   Str_abv \o Str_u \o <<"?","q">>,
   Str_abv \o Str_u \o MountPoint \o <<"/","z">>,
   <<"/","u","n","k","n","o","w","n">>}

RouteHeaders ==
  {{}, {Header(DefaultHeaderName, formatAuthHeader(Str_t1, DefaultTokenPrefix))}}

RouteUniverse(maxProjects, maxEndpoints) ==
  [maxProjects  |-> maxProjects,
   maxEndpoints |-> maxEndpoints,
   legacy       |-> FALSE,
   deletes      |-> FALSE,
   names        |-> {Str_Ab},
   baseUrls     |-> {Str_v},
   postAuths    |-> {BearerT1},
   putAuths     |-> {BearerT1},
   postFull     |-> TRUE,
   endpoints    |-> CollidingEndpoints,
   requests     |-> [path : RoutePaths, headers : RouteHeaders, dbFail : {FALSE}]
                    \cup {[path |-> Str_abv \o Str_u, headers |-> {}, dbFail |-> TRUE]},
   methods      |-> {"GET", "POST"}]

ParamUniverse ==
  [maxProjects  |-> FewProjects,
   maxEndpoints |-> ManyEndpoints,
   legacy       |-> FALSE,
   deletes      |-> TRUE,
   names        |-> {Str_Ab},
   baseUrls     |-> {Str_v},
   postAuths    |-> {UiDefaultAuth},
   putAuths     |-> {UiDefaultAuth},
   postFull     |-> TRUE,
   endpoints    |-> {Endpoint(Str_param, "GET", 200, <<"{","}">>, "null"),
                     Endpoint(<<"/","7">>, "POST", 201, <<"x">>, "null")},
   requests     |-> [path : {Str_abv \o Str_param,
                             Str_abv \o <<"/","7">>,
                             Str_abv \o <<"/","%","7","B","i","%","7","D">>},
                     headers : {{}}, dbFail : {FALSE}],
   methods      |-> {"GET", "POST"}]

AuthSettings ==
  {UiDefaultAuth,
   BearerT1,
   Auth(FALSE, Str_t1, DefaultHeaderName, DefaultTokenPrefix),
   Auth(TRUE, Null, DefaultHeaderName, DefaultTokenPrefix),
   Auth(TRUE, <<>>, DefaultHeaderName, DefaultTokenPrefix),
   Auth(TRUE, <<"t"," ","1">>, DefaultHeaderName, DefaultTokenPrefix),
   Auth(TRUE, Str_t1, Str_XKey, Str_Tok),
   Auth(TRUE, Str_t1, <<"X"," ","K">>, DefaultTokenPrefix),
   Auth(TRUE, Str_t1, <<>>, <<>>),
   Auth(TRUE, Str_t1, DefaultHeaderName, <<"M","y"," ","T">>)}

AuthHeaders ==
  {{}}
  \cup {{Header(DefaultHeaderName, v)} :
          v \in {formatAuthHeader(Str_t1, DefaultTokenPrefix),
                 formatAuthHeader(Str_t2, DefaultTokenPrefix),
                 formatAuthHeader(<<" ">> \o Str_t1, DefaultTokenPrefix),
                 formatAuthHeader(<<"t"," ","1">>, DefaultTokenPrefix),
                 formatAuthHeader(<<"n","u","l","l">>, DefaultTokenPrefix),
                 formatAuthHeader(<<>>, DefaultTokenPrefix),
                 formatAuthHeader(Str_t1, toLowerCase(DefaultTokenPrefix)),
                 formatAuthHeader(Str_t1, Str_Tok),
                 formatAuthHeader(Str_t1, <<"M","y"," ","T">>),
                 formatAuthHeader(Str_t1, <<>>)}}
  \cup {{Header(toLowerCase(DefaultHeaderName),
                formatAuthHeader(Str_t1, DefaultTokenPrefix))},
        {Header(Str_XKey, formatAuthHeader(Str_t1, Str_Tok))},
        {Header(Str_XKey, formatAuthHeader(Str_t1, DefaultTokenPrefix))}}

AuthUniverse(requiresAuth) ==
  [maxProjects  |-> AuthMaxProjects,
   maxEndpoints |-> AuthMaxEndpoints,
   legacy       |-> TRUE,
   deletes      |-> TRUE,
   names        |-> {Str_Ab},
   baseUrls     |-> {Str_v},
   postAuths    |-> {UiDefaultAuth},
   putAuths     |-> AuthSettings,
   postFull     |-> FALSE,
   endpoints    |-> {Endpoint(Str_u, "GET", 200, <<"1">>, requiresAuth)},
   requests     |-> [path : {Str_abv \o Str_u}, headers : AuthHeaders, dbFail : {FALSE}],
   methods      |-> {"GET"}]

\* "conc": one route whose status code and token are edited
\* while requests are in flight; the registry read may fail
ConcUniverse ==
  [maxProjects  |-> ConcMaxProjects,
   maxEndpoints |-> ConcMaxEndpoints,
   legacy       |-> FALSE,
   deletes      |-> TRUE,
   names        |-> {Str_Ab},
   baseUrls     |-> {Str_v},
   postAuths    |-> {BearerT1},
   putAuths     |-> {Auth(TRUE, Str_t2, DefaultHeaderName, DefaultTokenPrefix)},
   postFull     |-> FALSE,
   endpoints    |-> {Endpoint(Str_u, "GET", 200, <<"1">>, "null"),
                     Endpoint(Str_u, "GET", 204, <<"x">>, "false")},
   requests     |-> [path : {Str_abv \o Str_u}, headers : RouteHeaders, dbFail : {FALSE}]
                    \cup {[path |-> Str_abv \o Str_u, headers |-> {}, dbFail |-> TRUE]},
   methods      |-> {"GET"}]

\* the request a client sends to a URL of this origin under /api/fake
RequestTo(url, headers) ==
  [path |-> SubSeq(url, Len(MountPoint) + 1, Len(url)), headers |-> headers,
   dbFail |-> FALSE]

\* "urls": base URLs and paths written with and without the leading "/", and the requests
\* to the URLs the page copies and to the URLs README's "Use Your API" gives
UrlUniverse ==
  [maxProjects  |-> UrlMaxProjects,
   maxEndpoints |-> UrlMaxEndpoints,
   legacy       |-> FALSE,
   deletes      |-> TRUE,
   names        |-> {Str_Ab},
   baseUrls     |-> {Str_v, <<"v">>},
   postAuths    |-> {UiDefaultAuth},
   putAuths     |-> {UiDefaultAuth},
   postFull     |-> TRUE,
   endpoints    |-> {Endpoint(Str_u, "GET", 200, <<"1">>, "null"),
                     Endpoint(<<"u">>, "GET", 200, <<"1">>, "null")},
   requests     |-> {RequestTo(generateEndpointUrl(Str_Ab, b, p), {}) :
                       b \in {Str_v, <<"v">>}, p \in {Str_u, <<"u">>}}
                    \cup {RequestTo(MountPoint \o Str_v \o Str_u, {})},
   methods      |-> {"GET", "POST"}]

\* "owners": two users create, read, update and delete projects, with and
\* without a session; one project was stored before the schema had the
\* authentication field
OwnerUniverse ==
  [maxProjects  |-> OwnerMaxProjects,
   maxEndpoints |-> OwnerMaxEndpoints,
   legacy       |-> TRUE,
   deletes      |-> TRUE,
   names        |-> {Str_Ab},
   baseUrls     |-> {Str_v},
   postAuths    |-> {BearerT1},
   putAuths     |-> {},
   postFull     |-> FALSE,
   endpoints    |-> {Endpoint(Str_u, "GET", 200, <<"1">>, "null")},
   requests     |-> {},
   methods      |-> {"GET"}]

Universe(u) ==
  IF u = "projects" THEN RouteUniverse(ManyProjects, FewEndpoints)
  ELSE IF u = "conc" THEN ConcUniverse
  ELSE IF u = "owners" THEN OwnerUniverse
  ELSE IF u = "urls" THEN UrlUniverse
  ELSE IF u = "endpoints" THEN RouteUniverse(FewProjects, ManyEndpoints)
  ELSE IF u = "param" THEN ParamUniverse
  ELSE IF u = "auth-null" THEN AuthUniverse("null")
  ELSE IF u = "auth-true" THEN AuthUniverse("true")
  ELSE AuthUniverse("false")

U == Universe(universe)

\* the users who sign in: one, or in "owners" two
Users == IF universe = "owners" THEN {"u1", "u2"} ELSE {"u1"}

\* a user field in the body of POST /api/projects
BodyUsers == IF universe = "owners" THEN {NoUserField} \cup Users ELSE {NoUserField}

EndpointLists == UNION {[1..n -> U.endpoints] : n \in 0..U.maxEndpoints}

\* request bodies of POST /api/projects: what the management page sends (no
\* endpoints yet), or a body written by hand, endpoints included
PostBodies ==
  [name : U.names, baseUrl : U.baseUrls, authentication : U.postAuths,
   endpoints : IF U.postFull THEN EndpointLists ELSE {<<>>}, user : BodyUsers]

PutBody(present, name, baseUrl, authentication, endpoints) ==
  [present |-> present, name |-> name, baseUrl |-> baseUrl,
   authentication |-> authentication, endpoints |-> endpoints,
   user |-> NoUserField, _id |-> InvalidId]

\* a body that also carries the user and _id of a project, as the bodies the
\* management page sends do
WithOwnerFields(body, user, id) ==
  [body EXCEPT !.present = @ \cup {"user", "_id"}, !.user = user, !._id = id]

EmptyPutBody == PutBody({}, <<>>, <<>>, NoAuthentication, <<>>)

\* request bodies of PUT /api/projects/{id}: no field, or one field; in
\* "owners" also with a user and an _id
PutBodies ==
  {EmptyPutBody}
  \cup {PutBody({"name"}, n, <<>>, NoAuthentication, <<>>) : n \in U.names \cup {<<>>}}
  \cup {PutBody({"baseUrl"}, <<>>, b, NoAuthentication, <<>>) : b \in U.baseUrls}
  \cup {PutBody({"authentication"}, <<>>, <<>>, a, <<>>) : a \in U.putAuths}
  \cup {PutBody({"endpoints"}, <<>>, <<>>, NoAuthentication, es) : es \in EndpointLists}
  \cup (IF universe = "owners"
          THEN {WithOwnerFields(PutBody({"name"}, n, <<>>, NoAuthentication, <<>>),
                                u, U.maxProjects + 1) : n \in U.names, u \in Users}
          ELSE {})

\* who calls a management handler with which id, and whether the database is
\* reachable: the calls of the owner, and one call for each failure
OwnerCallers == [session : Users, id : 1..U.maxProjects, dbFail : {FALSE}]

FailingCallers ==
  {[session |-> NoSession, id |-> 1, dbFail |-> FALSE],
   [session |-> "u1", id |-> InvalidId, dbFail |-> FALSE],
   [session |-> "u1", id |-> 1, dbFail |-> TRUE]}

PostCalls ==
  ({c \in OwnerCallers : c.id = 1} \X PostBodies)
  \cup ({c \in FailingCallers : c.id = 1} \X {CHOOSE b \in PostBodies : TRUE})

PutCalls == (OwnerCallers \X PutBodies) \cup (FailingCallers \X {EmptyPutBody})

\* the universes of many projects send no DELETE
DeleteCalls == IF U.deletes THEN OwnerCallers \cup FailingCallers ELSE {}

Requests == U.requests

\* a project stored before the schema had the authentication field
LegacyProject(u) ==
  [_id |-> 1, user |-> "u1", name |-> Str_Ab, baseUrl |-> Str_v,
   authentication |-> NoAuthentication,
   endpoints |-> <<CHOOSE e \in Universe(u).endpoints : TRUE>>]

(***************************************************************************)
(* The state machine.  projects is the stored registry in the order        *)
(* find({}) returns it; last records the last operation with its request   *)
(* and what the handler returned.                                          *)
(***************************************************************************)
NoOperation == [op |-> "none"]

\* no project is selected
NoSelection == [none |-> TRUE]

\* the management page as it is constructed: useState([]) for projects,
\* useState(null) for selectedProject, no request sent
NoPage == [projects |-> <<>>, selectedProject |-> NoSelection, requests |-> {}]

InitUniverse(u) ==
  /\ universe = u
  /\ projects \in {<<>>} \cup (IF Universe(u).legacy THEN {<<LegacyProject(u)>>} ELSE {})
  /\ last = NoOperation
  /\ page = NoPage

Init == \E u \in {"projects", "endpoints", "param"} : InitUniverse(u)

AuthInit == \E u \in {"auth-null", "auth-true", "auth-false"} : InitUniverse(u)

CreateProject ==
  \E call \in PostCalls :
    LET r == postProjects(projects, call[1].session, call[2], call[1].dbFail)
    IN  /\ Len(r.registry) <= U.maxProjects
        /\ projects' = r.registry
        /\ last' = [op |-> "POST", status |-> r.status]
        /\ UNCHANGED <<universe, page>>

UpdateProject ==
  \E call \in PutCalls :
    LET r == putProject(projects, call[1].session, call[1].id, call[2], call[1].dbFail)
    IN  /\ projects' = r.registry
        /\ last' = [op |-> "PUT", status |-> r.status]
        /\ UNCHANGED <<universe, page>>

DeleteProject ==
  \E c \in DeleteCalls :
    LET r == deleteProject(projects, c.session, c.id, c.dbFail)
    IN  /\ projects' = r.registry
        /\ last' = [op |-> "DELETE", status |-> r.status]
        /\ UNCHANGED <<universe, page>>

\* GET, POST, PUT, PATCH, DELETE on /api/fake/...
Dispatch ==
  \E request \in Requests, method \in U.methods :
    /\ last' = [op |-> "dispatch", request |-> request, method |-> method,
                out |-> handleRequest(projects, request, method)]
    /\ UNCHANGED <<universe, projects, page>>

\* OPTIONS on /api/fake/...
Preflight ==
  \E request \in Requests :
    /\ request.headers = {}
    /\ last' = [op |-> "dispatch", request |-> request, method |-> "OPTIONS",
                out |-> handleOptions(request)]
    /\ UNCHANGED <<universe, projects, page>>

Next == CreateProject \/ UpdateProject \/ DeleteProject \/ Dispatch \/ Preflight

Spec == Init /\ [][Next]_vars

AuthSpec == AuthInit /\ [][Next]_vars

UrlInit == InitUniverse("urls")

UrlSpec == UrlInit /\ [][Next]_vars

(***************************************************************************)
(* The dispatcher with its awaits: handleRequest awaits the connection and *)
(* the registry read (route.ts lines 27, 41); what follows the read runs   *)
(* without a further await and reads nothing else, so the response is a    *)
(* function of what was read.  A request in flight is                      *)
(*   [op |-> "inflight", request, method, pc, snapshot, reads, edits,      *)
(*    seen]                                                                *)
(* pc "find" before the read and "emit" after it, snapshot what find({})   *)
(* returned, reads the number of reads, edits the number of management     *)
(* writes that completed since the request arrived, seen how many of them  *)
(* had completed when the registry was read.  An answered request keeps    *)
(* these fields under op "answered"; its response is responseOf.  The      *)
(* management handlers write the store in one atomic operation each        *)
(* (create, findOneAndUpdate, findOneAndDelete).                           *)
(***************************************************************************)
InFlight(request, method, pc, snapshot, reads, edits, seen) ==
  [op |-> "inflight", request |-> request, method |-> method, pc |-> pc,
   snapshot |-> snapshot, reads |-> reads, edits |-> edits, seen |-> seen]

\* the response of a request, from what it read
responseOf(r) ==
  IF r.method = "OPTIONS"
    THEN handleOptions(r.request)
    ELSE handleRequest(r.snapshot, r.request, r.method)

ConcInit == InitUniverse("conc")

\* a management write completes; a request in flight goes on
Edited(r, op) ==
  /\ projects' = r.registry
  /\ last' = IF last.op = "inflight"
               THEN [last EXCEPT !.edits = @ + 1]
               ELSE [op |-> op, status |-> r.status]
  /\ last.op = "inflight" => last.edits < MaxInFlightEdits
  /\ UNCHANGED <<universe, page>>

ConcCreate ==
  \E call \in PostCalls :
    LET r == postProjects(projects, call[1].session, call[2], call[1].dbFail)
    IN  Len(r.registry) <= U.maxProjects /\ Edited(r, "POST")

ConcUpdate ==
  \E call \in PutCalls :
    Edited(putProject(projects, call[1].session, call[1].id, call[2], call[1].dbFail),
           "PUT")

ConcDelete ==
  \E c \in DeleteCalls :
    Edited(deleteProject(projects, c.session, c.id, c.dbFail), "DELETE")

\* a request arrives at GET, POST, PUT, PATCH or DELETE of /api/fake/...
Begin ==
  \E request \in Requests, method \in U.methods :
    /\ last.op /= "inflight"
    /\ last' = InFlight(request, method, "find", <<>>, 0, 0, 0)
    /\ UNCHANGED <<universe, projects, page>>

\* a read that retries for as long as the registry cannot be read
Find_RetryForever ==
  /\ last.op = "inflight"
  /\ last.pc = "find"
  /\ last' = IF last.request.dbFail
               THEN last
               ELSE [last EXCEPT !.pc = "emit", !.snapshot = projects,
                                 !.reads = @ + 1, !.seen = last.edits]
  /\ UNCHANGED <<universe, projects, page>>

\* a read that answers from a registry kept since the process started
Find_Cached ==
  /\ last.op = "inflight"
  /\ last.pc = "find"
  /\ last' = [last EXCEPT !.pc = "emit", !.snapshot = <<>>, !.reads = @ + 1,
                          !.seen = last.edits]
  /\ UNCHANGED <<universe, projects, page>>

\* await connectDB(); await ApiProject.find({}): the stored projects as they
\* are now (a failed read leaves nothing to use and the catch answers)
Find ==
  /\ last.op = "inflight"
  /\ last.pc = "find"
  /\ last' = [last EXCEPT !.pc = "emit",
                          !.snapshot = IF last.request.dbFail THEN <<>> ELSE projects,
                          !.reads = @ + 1,
                          !.seen = last.edits]
  /\ UNCHANGED <<universe, projects, page>>

\* a handler that saves the documents it read
Respond_Saves ==
  /\ last.op = "inflight"
  /\ last.pc = "emit"
  /\ last' = [last EXCEPT !.op = "answered"]
  /\ projects' = last.snapshot
  /\ UNCHANGED <<universe, page>>

\* the loops, the auth gate and the emission on what was read: the response
\* (responseOf) is returned
Respond ==
  /\ last.op = "inflight"
  /\ last.pc = "emit"
  /\ last' = [last EXCEPT !.op = "answered"]
  /\ UNCHANGED <<universe, projects, page>>

\* OPTIONS on /api/fake/...: answered at once, nothing read
ConcPreflight ==
  \E request \in Requests :
    /\ last.op /= "inflight"
    /\ last' = [InFlight(request, "OPTIONS", "emit", <<>>, 0, 0, 0)
                  EXCEPT !.op = "answered"]
    /\ UNCHANGED <<universe, projects, page>>

ConcNext ==
  ConcCreate \/ ConcUpdate \/ ConcDelete \/ Begin \/ Find \/ Respond \/ ConcPreflight

ConcSpec == ConcInit /\ [][ConcNext]_vars

\* the awaited promises settle and the continuation of a handler runs
FairConcSpec == ConcSpec /\ WF_vars(Find) /\ WF_vars(Respond)

(***************************************************************************)
(* The management handlers called by two users.  last records the call     *)
(*   [op, session, id, dbFail, body, status, returned]                     *)
(* with the body sent (POST, PUT) and the projects returned (GET).         *)
(***************************************************************************)
Callers ==
  [session : Users \cup {NoSession}, id : {InvalidId} \cup (1..U.maxProjects),
   dbFail : {FALSE}]
  \cup [session : Users, id : {InvalidId, 1}, dbFail : {TRUE}]

Called(op, c, body, status, returned) ==
  [op |-> op, session |-> c.session, id |-> c.id, dbFail |-> c.dbFail,
   body |-> body, status |-> status, returned |-> returned]

OwnerInit == InitUniverse("owners")

OwnerCreate ==
  \E c \in {c \in Callers : c.id = InvalidId}, body \in PostBodies :
    LET r == postProjects(projects, c.session, body, c.dbFail)
    IN  /\ Len(r.registry) <= U.maxProjects
        /\ projects' = r.registry
        /\ last' = Called("POST", c, body, r.status, <<>>)
        /\ UNCHANGED <<universe, page>>

OwnerUpdate ==
  \E c \in Callers, body \in PutBodies :
    LET r == putProject(projects, c.session, c.id, body, c.dbFail)
    IN  /\ projects' = r.registry
        /\ last' = Called("PUT", c, body, r.status, <<>>)
        /\ UNCHANGED <<universe, page>>

OwnerDelete ==
  \E c \in Callers :
    LET r == deleteProject(projects, c.session, c.id, c.dbFail)
    IN  /\ projects' = r.registry
        /\ last' = Called("DELETE", c, EmptyPutBody, r.status, <<>>)
        /\ UNCHANGED <<universe, page>>

OwnerGet ==
  \E c \in Callers :
    LET r == getProject(projects, c.session, c.id, c.dbFail)
    IN  /\ projects' = r.registry
        /\ last' = Called("GET", c, EmptyPutBody, r.status, r.body)
        /\ UNCHANGED <<universe, page>>

OwnerList ==
  \E c \in {c \in Callers : c.id = InvalidId} :
    LET r == getProjects(projects, c.session, c.dbFail)
    IN  /\ projects' = r.registry
        /\ last' = Called("LIST", c, EmptyPutBody, r.status, r.body)
        /\ UNCHANGED <<universe, page>>

OwnerNext == OwnerCreate \/ OwnerUpdate \/ OwnerDelete \/ OwnerGet \/ OwnerList

OwnerSpec == OwnerInit /\ [][OwnerNext]_vars

(***************************************************************************)
(* generateProjectSlug on its own: every name of at most MaxNameLen        *)
(* characters over SlugAlphabet is slugified, and the slug slugified again.*)
(***************************************************************************)
SlugAlphabet == {"a", "Z", "7", "-", " ", "_"}

SlugNames == UNION {[1..n -> SlugAlphabet] : n \in 0..MaxNameLen}

Slugified(name, input, times) ==
  [op |-> "slugify", name |-> name, input |-> input, times |-> times,
   output |-> generateProjectSlug(input), clean |-> cleanProjectName(input)]

SlugInit ==
  /\ universe = "slug"
  /\ projects = <<>>
  /\ last = NoOperation
  /\ page = NoPage

Slugify ==
  \E name \in SlugNames :
    /\ last' = Slugified(name, name, 1)
    /\ UNCHANGED <<universe, projects, page>>

SlugifyAgain ==
  /\ last.op = "slugify"
  /\ last.times = 1
  /\ last' = Slugified(last.name, last.output, 2)
  /\ UNCHANGED <<universe, projects, page>>

SlugNext == Slugify \/ SlugifyAgain

SlugSpec == SlugInit /\ [][SlugNext]_vars

(***************************************************************************)
(* Vocabulary of the properties.                                           *)
(***************************************************************************)
\* the last operation was a dispatcher request other than OPTIONS
Dispatched == last.op = "dispatch" /\ last.method \in Methods

\* the (project, endpoint) pairs of the registry
Pairs ==
  UNION {{<<i, j>> : j \in 1..Len(projects[i].endpoints)} : i \in 1..Len(projects)}

ProjectOf(m) == projects[m[1]]

EndpointOf(m) == projects[m[1]].endpoints[m[2]]

\* /{slugify(P.name)}{P.baseUrl}{E.path}
ConstructedPath(m) ==
  <<"/">> \o generateProjectSlug(ProjectOf(m).name) \o ProjectOf(m).baseUrl
          \o EndpointOf(m).path

\* effective = endpoint.requiresAuth if not null else project.authentication.enabled
Effective(m) ==
  \/ EndpointOf(m).requiresAuth = "true"
  \/ /\ EndpointOf(m).requiresAuth = "null"
     /\ HasAuthentication(ProjectOf(m))
     /\ ProjectOf(m).authentication.enabled

\* the response is the endpoint's configured one: its status, its body
IsResponseOf(m) ==
  /\ last.out.emitted \in {"json", "text"}
  /\ last.out.response.status = EndpointOf(m).statusCode
  /\ last.out.response.body =
       [payload |-> IF JsonParses(EndpointOf(m).responseBody)
                      THEN JsonCanonical(EndpointOf(m).responseBody)
                      ELSE EndpointOf(m).responseBody]

\* the request is addressed to the pair: its constructed path, its method
AddressedTo(m) ==
  /\ Dispatched
  /\ ~last.request.dbFail
  /\ last.request.path = ConstructedPath(m)
  /\ last.method = EndpointOf(m).method

(***************************************************************************)
(* C1: a request to /{slug}{baseUrl}{path} with the endpoint's method and  *)
(* no auth header, for an endpoint whose effective requirement is false,   *)
(* gets that endpoint's status code and body, never a 404, 401 or 500.     *)
(***************************************************************************)
C1_UnprotectedEndpointIsServed ==
  \A m \in Pairs :
    (AddressedTo(m) /\ last.request.headers = {} /\ ~Effective(m)) => IsResponseOf(m)

(***************************************************************************)
(* C2: a request to the constructed path of an endpoint whose effective    *)
(* requirement is true, with no auth header or with a token that is not    *)
(* the project's, is answered 401 and never with the endpoint's response.  *)
(***************************************************************************)
CarriesWrongToken(m) ==
  \E h \in last.request.headers :
    \E parts \in {split(h.value, <<" ">>)} :
      Len(parts) = 2 /\ parts[2] /= authToken(ProjectOf(m))

C2_ProtectedEndpointAnswers401 ==
  \A m \in Pairs :
    (AddressedTo(m) /\ Effective(m)
       /\ (last.request.headers = {} \/ CarriesWrongToken(m)))
    => (last.out.emitted = "401" /\ last.out.response.status = 401)

(***************************************************************************)
(* Vocabulary of the auth gate's properties.                               *)
(***************************************************************************)
\* the dispatcher matched pair m and its gate ran to a decision or was skipped
Matched(m) == Dispatched /\ last.out.matched = m

HasSpace(s) == \E k \in 1..Len(s) : s[k] = " "

\* the header name the project is configured with (default "Authorization")
ConfiguredHeaderName(project) ==
  IF HasAuthentication(project) /\ project.authentication.headerName /= <<>>
    THEN project.authentication.headerName
    ELSE DefaultHeaderName

\* the token prefix the project is configured with (default "Bearer")
ConfiguredPrefix(project) ==
  IF HasAuthentication(project) /\ project.authentication.tokenPrefix /= <<>>
    THEN project.authentication.tokenPrefix
    ELSE DefaultTokenPrefix

\* the values the request carries in the project's auth header, as received
AuthHeaderValues(project) ==
  {trim(h.value) : h \in {h \in last.request.headers :
      toLowerCase(h.name) = toLowerCase(ConfiguredHeaderName(project))}}

\* the project has a stored token (a string)
HasToken(project) ==
  HasAuthentication(project) /\ project.authentication.token /= Null

\* the project has a stored token that is not the empty string
HasNonEmptyToken(project) ==
  HasToken(project) /\ project.authentication.token /= <<>>

(***************************************************************************)
(* C3: with effective requirement true and the auth header set to          *)
(* "{prefix} {token}" for the project's stored prefix and token, the       *)
(* request is Allowed: the endpoint's response is emitted, not a 401.      *)
(* As stated, for every stored token and prefix (taken non-empty), the     *)
(* code refutes it.                                                        *)
(***************************************************************************)
SendsStoredCredentials(m) ==
  /\ Matched(m)
  /\ Effective(m)
  /\ HasNonEmptyToken(ProjectOf(m))
  /\ ProjectOf(m).authentication.tokenPrefix /= <<>>
  /\ \E h \in last.request.headers :
       /\ toLowerCase(h.name) = toLowerCase(ConfiguredHeaderName(ProjectOf(m)))
       /\ h.value = ProjectOf(m).authentication.tokenPrefix \o <<" ">>
                      \o ProjectOf(m).authentication.token

C3_StoredCredentialsAllowed_AnyTokenAndPrefix ==
  \A m \in Pairs :
    SendsStoredCredentials(m) => (last.out.gate = "allowed" /\ IsResponseOf(m))

(***************************************************************************)
(* C3 as amended: the same, for a stored token and a stored prefix that    *)
(* are non-empty and contain no space: the request passes the auth gate,   *)
(* is not answered 401, and the endpoint's emission is attempted.          *)
(***************************************************************************)
C3_StoredCredentialsAllowed ==
  \A m \in Pairs :
    ( /\ SendsStoredCredentials(m)
      /\ ~HasSpace(ProjectOf(m).authentication.token)
      /\ ~HasSpace(ProjectOf(m).authentication.tokenPrefix) )
    => (last.out.gate = "allowed" /\ last.out.emitted /= "401")

\* allowed with a custom header name and prefix
C3_Witness ==
  \E m \in Pairs :
    /\ SendsStoredCredentials(m)
    /\ ProjectOf(m).authentication.headerName = Str_XKey
    /\ ProjectOf(m).authentication.tokenPrefix = Str_Tok
    /\ last.out.gate = "allowed"
    /\ IsResponseOf(m)

(***************************************************************************)
(* C4: when the effective requirement is true, the request is Allowed if   *)
(* and only if the token extracted from the header is non-empty and equal  *)
(* to the project's token; a supplied token that differs from the stored   *)
(* one in one character is Denied, and nothing is Allowed while the        *)
(* project's token is null or empty.                                       *)
(***************************************************************************)
\* the gate of the matched pair came to a decision
GateDecided(m) == Matched(m) /\ last.out.gate \in {"allowed", "denied"}

\* the token the request supplies: the second of the two parts of the header
SuppliedTokens(project) ==
  {parts[2] : parts \in {parts \in {split(v, <<" ">>) : v \in AuthHeaderValues(project)} :
                            Len(parts) = 2 /\ parts[1] = ConfiguredPrefix(project)}}

DiffersInOneCharacter(s, t) ==
  /\ Len(s) = Len(t)
  /\ Cardinality({k \in 1..Len(s) : s[k] /= t[k]}) = 1

C4_AllowedIffTokenEqual ==
  \A m \in Pairs :
    (Matched(m) /\ Effective(m)) =>
      /\ last.out.gate = "allowed"
           <=> \E t \in SuppliedTokens(ProjectOf(m)) :
                  t /= <<>> /\ HasToken(ProjectOf(m))
                            /\ t = ProjectOf(m).authentication.token
      /\ (\E t \in SuppliedTokens(ProjectOf(m)) :
             HasToken(ProjectOf(m))
             /\ DiffersInOneCharacter(t, ProjectOf(m).authentication.token))
           => last.out.gate = "denied"
      /\ (~HasToken(ProjectOf(m)) \/ ProjectOf(m).authentication.token = <<>>)
           => last.out.gate /= "allowed"
      /\ last.out.gate = "allowed" => last.out.emitted \in {"json", "text"}
      /\ last.out.gate = "denied" <=> last.out.emitted = "401"

\* a supplied token one character away from the stored one is denied
C4_Witness ==
  \E m \in Pairs :
    /\ GateDecided(m)
    /\ Effective(m)
    /\ \E t \in SuppliedTokens(ProjectOf(m)) :
         HasToken(ProjectOf(m)) /\ DiffersInOneCharacter(t, ProjectOf(m).authentication.token)
    /\ last.out.gate = "denied"
    /\ last.out.response.status = 401

(***************************************************************************)
(* C5: the effective requirement of the matched endpoint is its            *)
(* requiresAuth when that is true or false, and the project's              *)
(* authentication.enabled (false without an authentication object) when    *)
(* it is null: requiresAuth=false is served with no token check even if    *)
(* the project enables auth, requiresAuth=true is checked even if not.     *)
(***************************************************************************)
C5_EffectiveRequirement ==
  \A m \in Pairs :
    Matched(m) =>
      /\ last.out.gate = "skipped" <=> ~Effective(m)
      /\ EndpointOf(m).requiresAuth = "false" => last.out.gate = "skipped"
      /\ EndpointOf(m).requiresAuth = "true" => last.out.gate /= "skipped"
      /\ (last.out.gate = "skipped" /\ ResponseInitOk(EndpointOf(m).statusCode))
           => IsResponseOf(m)

\* an exempt endpoint of a project with auth enabled, served without a header
C5_Witness ==
  \E m \in Pairs :
    /\ Matched(m)
    /\ EndpointOf(m).requiresAuth = "false"
    /\ projectAuthEnabled(ProjectOf(m))
    /\ last.request.headers = {}
    /\ IsResponseOf(m)

(***************************************************************************)
(* C6: a pair matches a request if and only if the request path is         *)
(* string-equal to "/" + slug(name) + baseUrl + path and the methods are   *)
(* equal; a path that differs by a trailing slash, by letter case or by a  *)
(* concrete value for a {param} placeholder does not match, nor does the   *)
(* same path with another method.  The request path is the one the         *)
(* resolver is given (fullPath).                                           *)
(***************************************************************************)
\* requestPath == expectedPath and endpoint.method == requestMethod
IsRouteMatch(m) ==
  last.out.fullPath = ConstructedPath(m) /\ last.method = EndpointOf(m).method

\* i is the first position of a {param} placeholder of s: "{", a name, "}"
PlaceholderAt(s, i) ==
  /\ i \in 1..Len(s)
  /\ s[i] = "{"
  /\ \E k \in (i + 2)..Len(s) :
       s[k] = "}" /\ \A x \in (i + 1)..(k - 1) : s[x] \in LowerLetters

\* path p has a concrete value where the constructed path of m has a placeholder
FillsPlaceholder(p, m) ==
  \E i \in 1..Len(ConstructedPath(m)) :
    /\ PlaceholderAt(ConstructedPath(m), i)
    /\ Len(p) >= i
    /\ SubSeq(p, 1, i - 1) = SubSeq(ConstructedPath(m), 1, i - 1)
    /\ p[i] \in Digits

\* the request path is a near miss of the pair's constructed path
NearMiss(m) ==
  \/ last.out.fullPath = ConstructedPath(m) \o <<"/">>
  \/ /\ last.out.fullPath /= ConstructedPath(m)
     /\ toLowerCase(last.out.fullPath) = toLowerCase(ConstructedPath(m))
  \/ FillsPlaceholder(last.out.fullPath, m)
  \/ /\ last.out.fullPath = ConstructedPath(m)
     /\ last.method /= EndpointOf(m).method

CutAfter(registry, m) ==
  [i \in 1..m[1] |->
     IF i < m[1] THEN registry[i]
     ELSE [registry[i] EXCEPT !.endpoints = SubSeq(@, 1, m[2])]]

\* the registries that append one project to the registry
AppendedProject(registry) ==
  {Append(registry, [_id |-> FreshId(registry), user |-> "u1", name |-> b.name,
                     baseUrl |-> b.baseUrl, authentication |-> b.authentication,
                     endpoints |-> b.endpoints]) : b \in PostBodies}

\* the registries that append one endpoint to project i
AppendedEndpoint(registry, i) ==
  {[registry EXCEPT ![i].endpoints = Append(@, e)] : e \in U.endpoints}

\* the first match decides, and nothing after it does
FirstMatchDecides(m) ==
  /\ IsRouteMatch(m)
  /\ \A n \in Pairs : IsRouteMatch(n) => Before(m, n)
  /\ handleRequest(CutAfter(projects, m), last.request, last.method).response
       = last.out.response

\* as stated: an endpoint appended to any project of the registry
C7_FirstMatchDecides_AnyAppend ==
  \A m \in Pairs :
    Matched(m) =>
      /\ FirstMatchDecides(m)
      /\ \A registry \in AppendedProject(projects)
             \cup UNION {AppendedEndpoint(projects, i) : i \in 1..Len(projects)} :
           handleRequest(registry, last.request, last.method) = last.out

(***************************************************************************)
(* C7 as amended: the same, for a project appended to the registry and an  *)
(* endpoint appended to the project of the first match or to a project     *)
(* after it; an endpoint appended to an earlier project precedes the first *)
(* match in scan order.                                                    *)
(***************************************************************************)
C7_FirstMatchDecides ==
  \A m \in Pairs :
    Matched(m) =>
      /\ FirstMatchDecides(m)
      /\ \A registry \in AppendedProject(projects)
             \cup UNION {AppendedEndpoint(projects, i) : i \in m[1]..Len(projects)} :
           handleRequest(registry, last.request, last.method) = last.out

\* two pairs match, the first denies with 401, the second would not
C7_Witness ==
  \E m, n \in Pairs :
    /\ Matched(m)
    /\ n /= m
    /\ IsRouteMatch(n)
    /\ last.out.emitted = "401"
    /\ ~Effective(n)

(***************************************************************************)
(* C8: slugify is total and idempotent: slugify(slugify(n)) = slugify(n),  *)
(* every character of the output is in [a-z0-9-], and hyphens are neither  *)
(* collapsed nor trimmed: the output has the input's length, each          *)
(* character lower-cased if a letter, kept if a digit, "-" otherwise.      *)
(***************************************************************************)
C8_SlugifyIdempotent ==
  last.op = "slugify" =>
    /\ Len(last.output) = Len(last.input)
    /\ \A k \in 1..Len(last.output) :
         /\ last.output[k] \in LowerLetters \cup Digits \cup {"-"}
         /\ last.output[k] =
              IF last.input[k] \in LowerLetters \cup Digits THEN last.input[k]
              ELSE IF last.input[k] \in UpperLetters THEN toLowerCaseChar(last.input[k])
              ELSE "-"
    /\ last.times = 2 => last.output = last.input
    /\ last.clean = last.output

\* a name of two spaces and a capital: three characters, two hyphens kept
C8_Witness ==
  /\ last.op = "slugify"
  /\ last.times = 2
  /\ last.name = <<" ", " ", "Z">>
  /\ last.output = <<"-", "-", "z">>

(***************************************************************************)
(* C9: the auth header value is parsed as exactly two whitespace-separated *)
(* tokens <prefix> <value>: the extracted token is <value> when there are  *)
(* exactly two tokens and the prefix equals the project's tokenPrefix      *)
(* (default "Bearer"), and it is absent (the request Denied) when the      *)
(* header is missing, has not exactly two tokens or has another prefix.    *)
(* As stated, with tokens separated by runs of whitespace, the code        *)
(* refutes it.                                                             *)
(***************************************************************************)
\* the maximal runs of non-space characters of s
Tokens(s) == SelectSeq(split(s, <<" ">>), LAMBDA part : part /= <<>>)

\* the token the claim extracts from the header values, if any
TokensExtracted(project) ==
  {Tokens(v)[2] : v \in {v \in AuthHeaderValues(project) :
      Len(Tokens(v)) = 2 /\ Tokens(v)[1] = ConfiguredPrefix(project)}}

\* the gate's decision, given the set of extracted tokens
DecidesOn(m, extracted) ==
  /\ last.out.gate = "allowed"
       <=> \E t \in extracted : HasToken(ProjectOf(m))
                                  /\ t = ProjectOf(m).authentication.token
  /\ extracted = {} =>
       (last.out.gate = "denied" /\ last.out.response.status = 401)

\* the gate of the matched pair reads the header
GateReads(m) ==
  Matched(m) /\ Effective(m) /\ IsValidHeaderName(ConfiguredHeaderName(ProjectOf(m)))

C9_HeaderIsTwoWhitespaceSeparatedTokens ==
  \A m \in Pairs :
    GateReads(m) => DecidesOn(m, TokensExtracted(ProjectOf(m)))

(***************************************************************************)
(* C9 as amended: the header value is split at every single space          *)
(* character: the extracted token is the second part when there are        *)
(* exactly two parts and the first equals the project's tokenPrefix, and   *)
(* it is absent (the request Denied) when the header is missing, has not   *)
(* exactly two parts (two spaces in a row give three) or has another       *)
(* prefix.                                                                 *)
(***************************************************************************)
\* the value is prefix, one space, and a rest without a space
SingleSpaceExtracted(project) ==
  {SubSeq(v, Len(ConfiguredPrefix(project)) + 2, Len(v)) :
     v \in {v \in AuthHeaderValues(project) :
       /\ Len(v) > Len(ConfiguredPrefix(project))
       /\ SubSeq(v, 1, Len(ConfiguredPrefix(project)) + 1)
            = ConfiguredPrefix(project) \o <<" ">>
       /\ ~HasSpace(ConfiguredPrefix(project))
       /\ ~HasSpace(SubSeq(v, Len(ConfiguredPrefix(project)) + 2, Len(v)))}}

C9_HeaderIsTwoSpaceSeparatedParts ==
  \A m \in Pairs :
    GateReads(m) => DecidesOn(m, SingleSpaceExtracted(ProjectOf(m)))

\* a header with the right token and another prefix is denied
C9_Witness ==
  \E m \in Pairs :
    /\ GateReads(m)
    /\ HasToken(ProjectOf(m))
    /\ \E v \in AuthHeaderValues(ProjectOf(m)) :
         /\ Len(split(v, <<" ">>)) = 2
         /\ split(v, <<" ">>)[1] /= ConfiguredPrefix(ProjectOf(m))
         /\ split(v, <<" ">>)[2] = ProjectOf(m).authentication.token
    /\ last.out.gate = "denied"
    /\ last.out.response.status = 401

(***************************************************************************)
(* C10: every Denied outcome is a 401 whose JSON body is {error, message,  *)
(* requiredHeader, tokenFormat}, requiredHeader the project's headerName   *)
(* (default "Authorization"), tokenFormat the project's tokenPrefix        *)
(* (default "Bearer") followed by " <token>"; the 401 does not depend on   *)
(* the project's token: a registry that differs only in that token gives   *)
(* the identical 401 for the same request, when it denies it.              *)
(***************************************************************************)
\* the token values a registry may differ in
OtherTokens == {Null, <<>>, Str_t1, Str_t2, <<"t", " ", "1">>, <<"n","u","l","l">>}

\* the registry with the token of project i replaced
WithToken(registry, i, token) ==
  [registry EXCEPT ![i].authentication.token = token]

C10_DeniedIs401WithoutToken ==
  \A m \in Pairs :
    Matched(m) =>
      /\ last.out.gate = "denied" <=> last.out.emitted = "401"
      /\ last.out.gate = "denied" <=> last.out.response.status = 401
      /\ last.out.gate = "denied" =>
           /\ last.out.response.contentType = "application/json"
           /\ last.out.response.body =
                [error          |-> "Unauthorized",
                 message        |-> "Valid authentication token required",
                 requiredHeader |-> ConfiguredHeaderName(ProjectOf(m)),
                 tokenFormat    |-> ConfiguredPrefix(ProjectOf(m))
                                      \o <<" ","<","t","o","k","e","n",">">>]
           /\ HasAuthentication(ProjectOf(m)) =>
                \A token \in OtherTokens :
                  LET other == handleRequest(WithToken(projects, m[1], token),
                                             last.request, last.method)
                  IN  other.gate = "denied" => other.response = last.out.response

\* a denied request with a wrong token, for a project with a stored token
C10_Witness ==
  \E m \in Pairs :
    /\ Matched(m)
    /\ last.out.gate = "denied"
    /\ HasNonEmptyToken(ProjectOf(m))
    /\ last.request.headers /= {}
    /\ ProjectOf(m).authentication.headerName = Str_XKey
    /\ last.out.response.body.requiredHeader = Str_XKey

(***************************************************************************)
(* C11: on an Allowed request, for every stored responseBody and           *)
(* statusCode: a body that parses as JSON is answered with Content-Type    *)
(* application/json and the endpoint's status; a body that does not parse  *)
(* is answered verbatim with Content-Type text/plain and the endpoint's    *)
(* status; a non-JSON stored body is never surfaced as an error.           *)
(***************************************************************************)
\* the request matched pair m and passed its auth gate, or needed none
Allowed(m) == Matched(m) /\ last.out.gate \in {"allowed", "skipped"}

C11_StoredResponseIsEchoed ==
  \A m \in Pairs :
    Allowed(m) =>
      /\ last.out.response.status = EndpointOf(m).statusCode
      /\ last.out.emitted /= "fault"
      /\ IF JsonParses(EndpointOf(m).responseBody)
           THEN last.out.response.contentType = "application/json"
           ELSE /\ last.out.response.contentType = "text/plain"
                /\ last.out.response.body = [payload |-> EndpointOf(m).responseBody]

(***************************************************************************)
(* C12: when no (project, endpoint) pair matches the request path and      *)
(* method, the response is 404 with the JSON body {error: "Endpoint not    *)
(* found", path: the request path after the mount prefix, method: the      *)
(* request method}, whatever headers the request carries (never 401), and  *)
(* also when a path matches only under another method.  The request path   *)
(* is the pathname of the request's URL after the mount prefix, and the    *)
(* registry has been read.                                                 *)
(***************************************************************************)
\* the pathname of the request's URL, after the mount prefix
RequestPath == urlPathname(last.request.path)

\* no pair of the registry has this path and the request's method
NoPairMatches ==
  \A m \in Pairs :
    ~(RequestPath = ConstructedPath(m) /\ last.method = EndpointOf(m).method)

C12_UnmatchedRequestIs404 ==
  (Dispatched /\ ~last.request.dbFail /\ NoPairMatches) =>
    /\ last.out.response.status = 404
    /\ last.out.response.contentType = "application/json"
    /\ last.out.response.body = [error  |-> "Endpoint not found",
                                 path   |-> RequestPath,
                                 method |-> last.method]

(***************************************************************************)
(* Vocabulary of the properties of requests in flight.                     *)
(***************************************************************************)
\* a request with one of the five methods has been answered
Responded == last.op = "answered" /\ last.method \in Methods

\* the response it was answered with
Out == responseOf(last)

\* the endpoint of the snapshot the answered request matched
SnapshotEndpoint == last.snapshot[Out.matched[1]].endpoints[Out.matched[2]]

\* the four outcome classes, each with what identifies it
IsEndpointResponse ==
  /\ Out.emitted \in {"json", "text"}
  /\ Out.gate \in {"allowed", "skipped"}
  /\ Out.matched /= <<>>
  /\ Out.response.status = SnapshotEndpoint.statusCode

IsAuthDenied ==
  /\ Out.emitted = "401"
  /\ Out.gate = "denied"
  /\ Out.matched /= <<>>
  /\ Out.response.status = 401

IsNoRouteMatch ==
  /\ Out.emitted = "404"
  /\ Out.matched = <<>>
  /\ Out.response.status = 404

IsInternalFault ==
  /\ Out.emitted = "fault"
  /\ Out.response.status = 500
  /\ Out.response.body = [error |-> "Internal server error"]

(***************************************************************************)
(* C13: every dispatcher request with method GET, POST, PUT, PATCH or      *)
(* DELETE ends in one complete response of exactly one outcome class       *)
(* (endpoint response, 401, 404 or 500), and none is left without a        *)
(* response, whatever the stored data and whether or not the registry      *)
(* read fails.                                                             *)
(***************************************************************************)
OneOutcomeClass ==
  Responded =>
    /\ DOMAIN Out.response = {"status", "contentType", "body", "cors"}
    /\ Cardinality({c \in {"endpoint", "401", "404", "500"} :
          \/ c = "endpoint" /\ IsEndpointResponse
          \/ c = "401" /\ IsAuthDenied
          \/ c = "404" /\ IsNoRouteMatch
          \/ c = "500" /\ IsInternalFault}) = 1
    /\ last.reads = 1

C13_EveryRequestIsAnswered ==
  /\ []OneOutcomeClass
  /\ (last.op = "inflight") ~> (last.op = "answered")

\* a stored status the platform cannot emit still ends in a complete 500,
\* and so does a failed read
C13_Witness ==
  /\ Responded
  /\ ~last.request.dbFail
  /\ Out.matched /= <<>>
  /\ IsInternalFault
  /\ last.edits > 0

(***************************************************************************)
(* C14: if connecting to or reading the registry fails during a request,   *)
(* the response is 500 with the JSON body {error: "Internal server         *)
(* error"}; the read is not retried and no endpoint response, 401 or 404   *)
(* is emitted for that request.                                            *)
(***************************************************************************)
C14_RegistryFailureIs500 ==
  /\ (last.op = "inflight" /\ last.request.dbFail) => last.reads <= 1
  /\ (Responded /\ last.request.dbFail) =>
       /\ last.reads = 1
       /\ Out.response.status = 500
       /\ Out.response.contentType = "application/json"
       /\ Out.response.body = [error |-> "Internal server error"]
       /\ Out.emitted = "fault"
       /\ Out.matched = <<>>

\* the read fails for a request whose route is registered and open
C14_Witness ==
  /\ Responded
  /\ last.request.dbFail
  /\ Out.response.status = 500
  /\ \E m \in Pairs : last.request.path = ConstructedPath(m) /\ ~Effective(m)

(***************************************************************************)
(* C15: every response the dispatcher emits (endpoint response as JSON or  *)
(* plain text, 401, 404, 500, and the answer to OPTIONS) carries the same  *)
(* four CORS headers: Access-Control-Allow-Origin '*',                     *)
(* Access-Control-Allow-Methods 'GET, POST, PUT, PATCH, DELETE, OPTIONS',  *)
(* Access-Control-Allow-Headers and Access-Control-Max-Age '86400'.        *)
(***************************************************************************)
C15_EveryResponseCarriesCors ==
  last.op = "dispatch" =>
    /\ last.out.emitted \in {"json", "text", "401", "404", "fault", "preflight"}
    /\ DOMAIN last.out.response.cors =
         {"allowOrigin", "allowMethods", "allowHeaders", "maxAge"}
    /\ last.out.response.cors.allowOrigin = "*"
    /\ last.out.response.cors.allowMethods = "GET, POST, PUT, PATCH, DELETE, OPTIONS"
    /\ last.out.response.cors.allowHeaders =
         "Content-Type, Authorization, X-Requested-With, Accept, Origin"
    /\ last.out.response.cors.maxAge = "86400"

\* the response built in the catch, after a route matched, carries them too
C15_Witness ==
  /\ Dispatched
  /\ last.out.emitted = "fault"
  /\ last.out.matched /= <<>>
  /\ last.out.response.status = 500
  /\ last.out.response.cors.allowOrigin = "*"

(***************************************************************************)
(* C16: an OPTIONS request to any path, matching a registered endpoint or  *)
(* not and whatever the registry state (an unreachable registry included), *)
(* returns 200 with an empty body and the CORS headers, without connecting *)
(* to or reading the registry and without evaluating route matching or     *)
(* authentication.                                                         *)
(***************************************************************************)
C16_PreflightShortCircuits ==
  (last.op = "answered" /\ last.method = "OPTIONS") =>
    /\ Out.response.status = 200
    /\ Out.response.body = [none |-> TRUE]
    /\ Out.response.contentType = "none"
    /\ Out.response.cors = CorsHeaders
    /\ Out.emitted = "preflight"
    /\ Out.matched = <<>>
    /\ Out.gate = "none"
    /\ last.reads = 0
    /\ last.snapshot = <<>>

\* the registry is unreachable, and the path is that of a registered endpoint
\* which demands a token the request does not carry
C16_Witness ==
  /\ last.op = "answered"
  /\ last.method = "OPTIONS"
  /\ last.request.dbFail
  /\ last.request.headers = {}
  /\ \E m \in Pairs : last.request.path = ConstructedPath(m) /\ Effective(m)
  /\ Out.response.status = 200

(***************************************************************************)
(* C17: edits take effect on the next request.  The dispatcher reads the   *)
(* full project set afresh on every request and keeps nothing between      *)
(* requests: a request that has read the registry with no management write *)
(* completing since holds the stored projects as they are, every create,   *)
(* update and delete completed before it arrived included, and is answered *)
(* from them (the endpoints of a deleted project give 404, a changed token *)
(* is the one applied).                                                    *)
(***************************************************************************)
HasRead ==
  /\ last.op \in {"inflight", "answered"}
  /\ last.method \in Methods
  /\ last.pc = "emit"
  /\ ~last.request.dbFail

C17_AnsweredFromCurrentRegistry ==
  (HasRead /\ last.seen = last.edits) =>
    /\ last.snapshot = projects
    /\ last.reads = 1
    /\ Out = handleRequest(projects, last.request, last.method)
    /\ projects = <<>> => Out.response.status = 404
    /\ \A m \in Pairs :
         (Out.matched = m /\ Out.gate = "allowed") =>
           \E h \in last.request.headers :
             extractTokenFromHeader(h.value, ProjectOf(m).authentication.tokenPrefix)
               = ProjectOf(m).authentication.token

\* the token was changed before the request arrived: the request that carries
\* the token the project was created with is denied
C17_Witness ==
  /\ Responded
  /\ last.edits = 0
  /\ Out.gate = "denied"
  /\ \E m \in Pairs :
       /\ Out.matched = m
       /\ ProjectOf(m).authentication.token = Str_t2
  /\ \E h \in last.request.headers :
       h.value = formatAuthHeader(Str_t1, DefaultTokenPrefix)

(***************************************************************************)
(* C18: the dispatcher is read-only.  No step of a dispatcher request (its *)
(* arrival, its read of the registry, its response, the answer to OPTIONS),*)
(* under any interleaving with management edits, changes a stored project  *)
(* or endpoint: the registry changes only in the steps in which a          *)
(* management operation completes.                                         *)
(***************************************************************************)
DispatcherStep ==
  /\ last'.op \in {"inflight", "answered"}
  /\ last.op = "inflight" => last'.edits = last.edits

C18_DispatcherIsReadOnly == [][DispatcherStep => projects' = projects]_vars

\* a management edit completed between the read and the response: the
\* response leaves the edited registry as the edit made it
C18_Witness ==
  /\ Responded
  /\ last.seen = 0
  /\ last.edits > 0
  /\ ~last.request.dbFail
  /\ last.snapshot /= projects
  /\ IsEndpointResponse

(***************************************************************************)
(* C19: after any sequence of management writes (project creation by POST  *)
(* /api/projects, project update by PUT /api/projects/{id}), no stored     *)
(* project contains two endpoints with the same (method, path) pair.       *)
(***************************************************************************)
C19_NoDuplicateEndpoints ==
  \A i \in 1..Len(projects) :
    \A j, k \in 1..Len(projects[i].endpoints) :
      j /= k =>
        <<projects[i].endpoints[j].method, projects[i].endpoints[j].path>>
          /= <<projects[i].endpoints[k].method, projects[i].endpoints[k].path>>

(***************************************************************************)
(* Vocabulary of the properties of ownership.                              *)
(***************************************************************************)
\* the stored projects with this id that the session user does not own
ForeignProjects(registry, c) ==
  {i \in 1..Len(registry) : registry[i]._id = c.id /\ registry[i].user /= c.session}

\* this step is a call of GET-one, PUT or DELETE by a signed-in user, with
\* the store reachable, on a project that user does not own
ForeignCall ==
  /\ last'.op \in {"GET", "PUT", "DELETE"}
  /\ last'.session \in Users
  /\ ~last'.dbFail
  /\ ForeignProjects(projects, last') /= {}

\* handlers return before the lookup for a body they reject
BodyRejected(c) ==
  /\ c.op = "PUT"
  /\ \/ "endpoints" \in c.body.present /\ HasDuplicateEndpoint(c.body.endpoints)
     \/ ~UpdateValid(c.body)

\* POST records the session user as the owner, whatever user the body names
CreatorOwns ==
  (last.op = "POST" /\ last.status = 200) =>
    /\ projects /= <<>>
    /\ projects[Len(projects)].user = last.session
    /\ projects[Len(projects)].name = last.body.name

\* the list is exactly the projects of the session user
ListIsOwn ==
  (last.op = "LIST" /\ last.status = 200) =>
    /\ \A k \in 1..Len(last.returned) : last.returned[k].user = last.session
    /\ {last.returned[k]._id : k \in 1..Len(last.returned)}
         = {projects[i]._id : i \in {i \in 1..Len(projects) :
                                        projects[i].user = last.session}}
    /\ \A k \in 1..Len(last.returned) :
         \E i \in 1..Len(projects) : last.returned[k] = withAuthentication(projects[i])
    /\ Len(last.returned) =
         Cardinality({i \in 1..Len(projects) : projects[i].user = last.session})

\* GET-one returns a project of the session user only
GetIsOwn ==
  (last.op = "GET" /\ last.status = 200) =>
    /\ Len(last.returned) = 1
    /\ last.returned[1].user = last.session
    /\ last.returned[1]._id = last.id

\* without a session every handler answers 401 and changes nothing
NoSessionIs401 ==
  last'.op \in {"POST", "PUT", "DELETE", "GET", "LIST"} /\ last'.session = NoSession
    => last'.status = 401 /\ projects' = projects /\ last'.returned = <<>>

(***************************************************************************)
(* C20 as stated: a project is owned exclusively by the user who created   *)
(* it.  POST records the session user as owner regardless of a user field  *)
(* in the body; GET-one, PUT and DELETE of a project by a session user who *)
(* is not its owner return 404 and leave the project unchanged; the list   *)
(* returns exactly the projects of the session user; every management      *)
(* operation without a session returns 401 and changes nothing.  (Taken    *)
(* with the store reachable and a body the schema's validators accept.)    *)
(***************************************************************************)
C20_ForeignCallIs404 ==
  /\ [](CreatorOwns /\ ListIsOwn /\ GetIsOwn)
  /\ [][NoSessionIs401]_vars
  /\ [][(ForeignCall /\ UpdateValid(last'.body)) =>
         (last'.status = 404 /\ projects' = projects)]_vars

(***************************************************************************)
(* C20, amended: as above, except that PUT answers a body it rejects       *)
(* before it looks the project up: 400 for a body with a duplicate         *)
(* (method, path), 500 for one the validators refuse.  A call of GET-one,  *)
(* PUT or DELETE by a session user who is not the owner never returns or   *)
(* changes the project, and returns 404 unless it is a PUT of such a body. *)
(***************************************************************************)
C20_ForeignCallChangesNothing ==
  /\ [](CreatorOwns /\ ListIsOwn /\ GetIsOwn)
  /\ [][NoSessionIs401]_vars
  /\ [][ForeignCall =>
         /\ projects' = projects
         /\ last'.returned = <<>>
         /\ last'.status \in {404, 400, 500}
         /\ ~BodyRejected(last') => last'.status = 404
         /\ last'.status = 400 => HasDuplicateEndpoint(last'.body.endpoints)
         /\ last'.status = 500 => ~UpdateValid(last'.body)]_vars

\* the second user asked for a valid update of the first user's project and
\* got 404, the project as it was
C20_Witness ==
  /\ last.op = "PUT"
  /\ last.session = "u2"
  /\ ~last.dbFail
  /\ ~BodyRejected(last)
  /\ "endpoints" \in last.body.present
  /\ last.status = 404
  /\ \E i \in 1..Len(projects) :
       /\ projects[i]._id = last.id
       /\ projects[i].user = "u1"
       /\ projects[i].endpoints /= last.body.endpoints

(***************************************************************************)
(* C21: for every project P and endpoint E of P, the URL that              *)
(* generateEndpointUrl(P.name, P.baseUrl, E.path) produces is one the      *)
(* dispatcher serves: requested with method E.method it is matched to an   *)
(* endpoint (not 404), for every stored baseUrl and path.                  *)
(***************************************************************************)
CopiedUrl(m) ==
  generateEndpointUrl(ProjectOf(m).name, ProjectOf(m).baseUrl, EndpointOf(m).path)

C21_CopiedUrlIsServed ==
  \A m \in Pairs :
    (/\ Dispatched
     /\ last.request = RequestTo(CopiedUrl(m), {})
     /\ last.method = EndpointOf(m).method)
      => /\ last.out.matched /= <<>>
         /\ last.out.fullPath = ConstructedPath(m)
         /\ last.out.response.status /= 404

(***************************************************************************)
(* C22: an endpoint with path {path} in a project with base URL {baseUrl}  *)
(* is reachable by a request to {origin}/api/fake{baseUrl}{path} (for      *)
(* example /api/fake/api/v1/users): the request is matched to that         *)
(* endpoint.                                                               *)
(***************************************************************************)
ReadmeUrl(m) == MountPoint \o ProjectOf(m).baseUrl \o EndpointOf(m).path

C22_ReadmeUrlIsServed ==
  \A m \in Pairs :
    (/\ Dispatched
     /\ startsWithSlash(ProjectOf(m).baseUrl)
     /\ last.request = RequestTo(ReadmeUrl(m), {})
     /\ last.method = EndpointOf(m).method)
      => last.out.matched = m

(***************************************************************************)
(* C23: every stored endpoint path begins with "/": after any sequence of  *)
(* project writes through POST and PUT, each endpoint.path in the registry *)
(* has a leading "/".                                                      *)
(***************************************************************************)
C23_StoredPathsAreAnchored ==
  \A i \in 1..Len(projects) :
    \A j \in 1..Len(projects[i].endpoints) :
      startsWithSlash(projects[i].endpoints[j].path)

(***************************************************************************)
(* C24: for any registry and any request (path, method), at most one       *)
(* (project, endpoint) pair across all projects has a constructed path and *)
(* method equal to the request's: the route match is unique.               *)
(***************************************************************************)
RouteMatches ==
  {m \in Pairs : /\ ConstructedPath(m) = last.out.fullPath
                 /\ EndpointOf(m).method = last.method}

C24_RouteMatchIsUnique ==
  (Dispatched /\ ~last.request.dbFail) => Cardinality(RouteMatches) <= 1

(***************************************************************************)
(* C25: PUT /api/projects/{id} applies its checks in a fixed order and is  *)
(* all-or-nothing: no session gives 401, then an invalid id gives 400,     *)
(* then a body whose endpoints contain two entries with the same method    *)
(* and path gives 400, then a project that does not exist or is not owned  *)
(* by the caller gives 404; in each of these cases, and on a 500, no       *)
(* stored project is changed.                                              *)
(***************************************************************************)
PutHasDuplicate(c) ==
  "endpoints" \in c.body.present /\ HasDuplicateEndpoint(c.body.endpoints)

PutChecksInOrder ==
  last'.op = "PUT" =>
    /\ last'.session = NoSession => last'.status = 401
    /\ (last'.session /= NoSession /\ last'.id = InvalidId) => last'.status = 400
    /\ (/\ last'.session /= NoSession
        /\ last'.id /= InvalidId
        /\ PutHasDuplicate(last')
        /\ ~last'.dbFail) => last'.status = 400
    /\ (/\ last'.session /= NoSession
        /\ last'.id /= InvalidId
        /\ ~PutHasDuplicate(last')
        /\ FindOwned(projects, last'.id, last'.session) = 0
        /\ last'.status /= 500) => last'.status = 404
    /\ last'.status \in {200, 400, 401, 404, 500}
    /\ last'.status /= 200 => projects' = projects

C25_PutChecksInOrder == [][PutChecksInOrder]_vars

\* a call that fails every check is answered by the first: no session, an
\* invalid id and a duplicate in the body give 401
C25_Witness ==
  /\ last.op = "PUT"
  /\ last.session = NoSession
  /\ last.id = InvalidId
  /\ PutHasDuplicate(last)
  /\ last.status = 401
  /\ projects /= <<>>

(***************************************************************************)
(* C26: a successful PUT /api/projects/{id} changes, in the targeted       *)
(* project only, exactly those of name, baseUrl, endpoints and             *)
(* authentication that are present in the request body; fields absent from *)
(* the body keep their stored values, the project's owner and _id never    *)
(* change even when the body contains a user or _id field, and every other *)
(* project is unchanged.                                                   *)
(***************************************************************************)
UpdatedAsSent(before, after, body) ==
  /\ after._id = before._id
  /\ after.user = before.user
  /\ after.name = IF "name" \in body.present THEN body.name ELSE before.name
  /\ after.baseUrl = IF "baseUrl" \in body.present THEN body.baseUrl ELSE before.baseUrl
  /\ after.endpoints =
       IF "endpoints" \in body.present THEN body.endpoints ELSE before.endpoints
  /\ after.authentication =
       IF "authentication" \in body.present
         THEN body.authentication ELSE before.authentication

PutChangesWhatIsSent ==
  (last'.op = "PUT" /\ last'.status = 200) =>
    /\ Len(projects') = Len(projects)
    /\ \E i \in 1..Len(projects) :
         /\ projects[i]._id = last'.id
         /\ projects[i].user = last'.session
         /\ UpdatedAsSent(projects[i], projects'[i], last'.body)
         /\ \A k \in 1..Len(projects) : k /= i => projects'[k] = projects[k]

HexGroups == {<<"0", "0", "0", "0">>, <<"a", "3", "f", "9">>}

\* the outcomes of generateReadableToken: four groups joined by '-'
generateReadableToken ==
  {g[1] \o <<"-">> \o g[2] \o <<"-">> \o g[3] \o <<"-">> \o g[4] :
     g \in [1..4 -> HexGroups]}

TokenChars == UpperLetters \cup LowerLetters \cup Digits \cup {"-"}

\* /^[a-zA-Z0-9\-]+$/.test(token) && token.length >= 8
validateTokenFormat(token) ==
  /\ Len(token) > 0
  /\ \A i \in 1..Len(token) : token[i] \in TokenChars
  /\ Len(token) >= 8

\* requiresAuth: endpoint.requiresAuth !== undefined ? endpoint.requiresAuth : null
ensureEndpointAuth(endpoint) ==
  [endpoint EXCEPT !.requiresAuth = IF @ = "missing" THEN "null" ELSE @]

\* project.authentication || {enabled: false, token: null,
\*                            headerName: 'Authorization', tokenPrefix: 'Bearer'}
currentAuth(project) ==
  IF HasAuthentication(project)
    THEN project.authentication
    ELSE Auth(FALSE, Null, DefaultHeaderName, DefaultTokenPrefix)

\* a switch that keeps the token it finds when it enables authentication
toggleAuthentication_KeepsToken(project, generated) ==
  [project EXCEPT
     !.endpoints = [j \in 1..Len(project.endpoints) |->
                      ensureEndpointAuth(project.endpoints[j])],
     !.authentication =
        Auth(~currentAuth(project).enabled,
             OrDefault(currentAuth(project).token, generated),
             OrDefault(currentAuth(project).headerName, DefaultHeaderName),
             OrDefault(currentAuth(project).tokenPrefix, DefaultTokenPrefix))]

\* the onCheckedChange handler of the Enable Authentication switch: the
\* project it hands to onUpdateProject; generated is what generateReadableToken
\* returns
toggleAuthentication(project, generated) ==
  LET newEnabled == ~currentAuth(project).enabled
      newToken == IF newEnabled
                    THEN generated
                    ELSE OrDefault(currentAuth(project).token, generated)
  IN  [project EXCEPT
         !.endpoints = [j \in 1..Len(project.endpoints) |->
                          ensureEndpointAuth(project.endpoints[j])],
         !.authentication =
            Auth(newEnabled, newToken,
                 OrDefault(currentAuth(project).headerName, DefaultHeaderName),
                 OrDefault(currentAuth(project).tokenPrefix, DefaultTokenPrefix))]

\* the lock of an endpoint row: ensureEndpointAuth, then
\* endpointAuth !== null ? endpointAuth : authEnabled
lockIndicator(project, endpoint) ==
  LET endpointAuth == ensureEndpointAuth(endpoint).requiresAuth
      authEnabled == projectAuthEnabled(project)
  IN  IF endpointAuth /= "null" THEN endpointAuth = "true" ELSE authEnabled

\* testEndpoint: endpoint.requiresAuth !== null ? endpoint.requiresAuth
\*                                              : project.authentication?.enabled
\* as the condition of line 380 reads it (undefined is falsy)
testRequiresAuth(project, endpoint) ==
  IF endpoint.requiresAuth /= "null"
    THEN endpoint.requiresAuth = "true"
    ELSE projectAuthEnabled(project)

\* if (requiresAuth && project.authentication?.token): the header is attached
testAttachesToken(project, endpoint) ==
  testRequiresAuth(project, endpoint) /\ Truthy(authToken(project))

\* the endpoint as the dispatcher reads it from the store: the schema's
\* default (null) stands for a missing requiresAuth
storedEndpoint(endpoint) ==
  [endpoint EXCEPT !.requiresAuth = IF @ = "missing" THEN "null" ELSE @]

\* the authentication a project of the page may have: none, or any of
\* enabled x token (null, empty, t1) x header name x prefix (empty or set)
UiAuthentications ==
  {NoAuthentication}
    \cup {Auth(e, t, h, p) : e \in BOOLEAN, t \in {Null, <<>>, Str_t1},
                             h \in {<<>>, Str_XKey}, p \in {<<>>, Str_Tok}}

\* the projects the page may hold: one endpoint, with requiresAuth true,
\* false, null or missing, and any authentication
UiProjects ==
  {[_id |-> 1, user |-> "u1", name |-> Str_Ab, baseUrl |-> Str_v,
    endpoints |-> <<Endpoint(Str_u, "GET", 200, <<"1">>, r)>>,
    authentication |-> a] :
      r \in {"true", "false", "null", "missing"}, a \in UiAuthentications}

UiInit ==
  /\ universe = "ui"
  /\ projects = <<>>
  /\ last = NoOperation
  /\ page = NoPage

\* the switch is clicked: the page submits the project
ToggleAuthentication ==
  \E project \in UiProjects, generated \in generateReadableToken :
    /\ last' = [op |-> "toggle", project |-> project, generated |-> generated,
                sent |-> toggleAuthentication(project, generated)]
    /\ UNCHANGED <<universe, projects, page>>

\* an endpoint row is rendered and its Test button clicked
TestEndpoint ==
  \E project \in UiProjects :
    /\ last' = [op |-> "test", project |-> project,
                endpoint |-> project.endpoints[1],
                lock |-> lockIndicator(project, project.endpoints[1]),
                requiresAuth |-> testRequiresAuth(project, project.endpoints[1]),
                attaches |-> testAttachesToken(project, project.endpoints[1]),
                dispatcher |-> endpointRequiresAuth(
                                 project, storedEndpoint(project.endpoints[1]))]
    /\ UNCHANGED <<universe, projects, page>>

UiNext == ToggleAuthentication \/ TestEndpoint

UiSpec == UiInit /\ [][UiNext]_vars


(***************************************************************************)
(* C27: the Enable Authentication switch.                                  *)
(***************************************************************************)
Toggled == last.op = "toggle"

HexDigits == {"0", "1", "2", "3", "4", "5", "6", "7", "8", "9",
              "a", "b", "c", "d", "e", "f"}

\* xxxx-xxxx-xxxx-xxxx: four groups of four hexadecimal digits
IsReadableToken(token) ==
  /\ Len(token) = 19
  /\ \A i \in 1..19 :
       IF i \in {5, 10, 15} THEN token[i] = "-" ELSE token[i] \in HexDigits

\* what the switch submits apart from the token: the flipped flag, the header
\* name and prefix kept (defaults when unset), the endpoints with a missing
\* requiresAuth set to null
ToggleKeepsTheRest ==
  LET before == currentAuth(last.project)
      sent == last.sent.authentication
  IN  /\ sent.enabled = ~before.enabled
      /\ sent.headerName = IF Truthy(before.headerName)
                             THEN before.headerName ELSE DefaultHeaderName
      /\ sent.tokenPrefix = IF Truthy(before.tokenPrefix)
                              THEN before.tokenPrefix ELSE DefaultTokenPrefix
      /\ Len(last.sent.endpoints) = Len(last.project.endpoints)
      /\ \A j \in 1..Len(last.project.endpoints) :
           last.sent.endpoints[j] =
             IF last.project.endpoints[j].requiresAuth = "missing"
               THEN [last.project.endpoints[j] EXCEPT !.requiresAuth = "null"]
               ELSE last.project.endpoints[j]

\* switching on submits a newly generated token of the form
\* xxxx-xxxx-xxxx-xxxx, accepted by validateTokenFormat, without a space
ToggleOnGenerates ==
  ~currentAuth(last.project).enabled =>
     /\ last.sent.authentication.token = last.generated
     /\ IsReadableToken(last.sent.authentication.token)
     /\ validateTokenFormat(last.sent.authentication.token)
     /\ \A i \in 1..Len(last.sent.authentication.token) :
          last.sent.authentication.token[i] /= " "

\* C27 as stated: switching authentication on submits enabled = true and a
\* newly generated token xxxx-xxxx-xxxx-xxxx; switching it off submits
\* enabled = false and the existing token; header name, prefix and endpoints
\* are kept
C27_ToggleOffKeepsToken ==
  Toggled =>
    /\ ToggleKeepsTheRest
    /\ ToggleOnGenerates
    /\ currentAuth(last.project).enabled =>
         last.sent.authentication.token = currentAuth(last.project).token

\* C27, amended: switching authentication off keeps the existing token only
\* when the project has a non-empty one; with a null or empty token it
\* submits a newly generated token; the rest is as stated
C27_ToggleOffKeepsNonEmptyToken ==
  Toggled =>
    /\ ToggleKeepsTheRest
    /\ ToggleOnGenerates
    /\ currentAuth(last.project).enabled =>
         /\ Truthy(currentAuth(last.project).token) =>
              last.sent.authentication.token = currentAuth(last.project).token
         /\ ~Truthy(currentAuth(last.project).token) =>
              /\ last.sent.authentication.token = last.generated
              /\ IsReadableToken(last.sent.authentication.token)

\* authentication with an empty token is switched off, with a header name
\* that is unset and an endpoint without requiresAuth
C27_Witness ==
  /\ Toggled
  /\ HasAuthentication(last.project)
  /\ last.project.authentication.enabled
  /\ last.project.authentication.token = <<>>
  /\ last.project.authentication.headerName = <<>>
  /\ last.project.endpoints[1].requiresAuth = "missing"
  /\ ~last.sent.authentication.enabled
  /\ last.sent.authentication.token = last.generated


(***************************************************************************)
(* C28: the page and the dispatcher on whether an endpoint requires        *)
(* authentication.                                                         *)
(***************************************************************************)
Tested == last.op = "test"

\* C28: for every requiresAuth in {true, false, null, missing} and project
\* authentication in {absent, enabled, disabled}, the lock indicator and the
\* Test request's decision to authenticate equal the dispatcher's effective
\* requirement
C28_PageAgreesWithDispatcher ==
  Tested =>
    /\ last.lock = last.dispatcher
    /\ last.requiresAuth = last.dispatcher


(***************************************************************************)
(* The management page (Home in app/page.tsx) with its requests in flight. *)
(* page.projects and page.selectedProject are the two pieces of React      *)
(* state; a handler runs to its await, where its request is sent, and,     *)
(* when the response is delivered, goes on with the projects and           *)
(* selectedProject of the render it was called in, which the request keeps *)
(* as projects and selectedProject.  The server handles the requests that  *)
(* were sent in any order, each in one atomic operation.                   *)
(***************************************************************************)
PageMaxProjects == 1

PageMaxEndpoints == 1

\* requests the page has in flight at once
PageMaxRequests == 2

NoData == [none |-> TRUE]

\* a request a handler sent: pc "sent" until the server handled it, then
\* "answered" with the status and the response's data
PageRequest(kind, id, body, closure) ==
  [kind |-> kind, id |-> id, body |-> body,
   projects |-> closure.projects, selectedProject |-> closure.selectedProject,
   pc |-> "sent", status |-> 0, data |-> NoData]

\* the body handleCreateProject posts
CreateBody(name, baseUrl) ==
  [name |-> name, baseUrl |-> baseUrl, endpoints |-> <<>>,
   authentication |-> UiDefaultAuth, user |-> NoUserField]

\* the body handleUpdateProject puts: the whole project as the page holds it
UpdateBody(updatedProject) ==
  WithOwnerFields(
    PutBody({"name", "baseUrl", "endpoints", "authentication"},
            updatedProject.name, updatedProject.baseUrl,
            updatedProject.authentication, updatedProject.endpoints),
    updatedProject.user, updatedProject._id)

\* the endpoints the Add Endpoint form is submitted with
PageEndpoints ==
  {Endpoint(Str_u, m, 200, <<"1">>, "null") : m \in {"GET", "POST"}}

\* the outcome of generateReadableToken the page draws
PageTokens == {g \in generateReadableToken : \A i \in 1..Len(g) : g[i] \in {"0", "-"}}

\* handleAddEndpoint: the project it hands to onUpdateProject
addEndpoint(project, endpoint) ==
  [project EXCEPT !.endpoints = Append(@, endpoint)]

\* handleAddEndpoint's duplicate check against the project the page holds
isDuplicate(project, endpoint) ==
  \E j \in 1..Len(project.endpoints) :
     /\ project.endpoints[j].method = endpoint.method
     /\ project.endpoints[j].path = endpoint.path

PageInit ==
  /\ universe = "page"
  /\ projects = <<>>
  /\ last = NoOperation
  /\ page = NoPage

Sends(request) ==
  /\ Cardinality(page.requests) < PageMaxRequests
  /\ page' = [page EXCEPT !.requests = @ \cup {request}]
  /\ last' = [op |-> "sent", request |-> request]
  /\ UNCHANGED <<universe, projects>>

\* handleCreateProject up to its await
PageCreate ==
  /\ Len(page.projects) < PageMaxProjects
  /\ Sends(PageRequest("create", InvalidId, CreateBody(Str_Ab, Str_v), page))

\* onProjectClick: a project of the list is selected
PageSelect ==
  \E i \in 1..Len(page.projects) :
    /\ page' = [page EXCEPT !.selectedProject = page.projects[i]]
    /\ last' = [op |-> "selected"]
    /\ UNCHANGED <<universe, projects>>

\* handleAddEndpoint, then handleUpdateProject up to its await
PageAddEndpoint ==
  /\ page.selectedProject /= NoSelection
  /\ Len(page.selectedProject.endpoints) < PageMaxEndpoints
  /\ \E endpoint \in PageEndpoints :
       /\ ~isDuplicate(page.selectedProject, endpoint)
       /\ Sends(PageRequest("update", page.selectedProject._id,
                            UpdateBody(addEndpoint(page.selectedProject, endpoint)),
                            page))

\* the Enable Authentication switch, then handleUpdateProject up to its await
PageToggle ==
  /\ page.selectedProject /= NoSelection
  /\ \E generated \in PageTokens :
       Sends(PageRequest("update", page.selectedProject._id,
                         UpdateBody(toggleAuthentication(page.selectedProject,
                                                         generated)),
                         page))

\* handleDeleteProject up to its await
PageDelete ==
  \E i \in 1..Len(page.projects) :
    Sends(PageRequest("delete", page.projects[i]._id, EmptyPutBody, page))

\* the route handler of a request: [status, registry, data]
served(registry, request) ==
  IF request.kind = "create"
    THEN LET r == postProjects(registry, "u1", request.body, FALSE)
         IN  [status |-> r.status, registry |-> r.registry,
              data |-> IF r.status = 200
                         THEN r.registry[Len(r.registry)] ELSE NoData]
  ELSE IF request.kind = "update"
    THEN LET r == putProject(registry, "u1", request.id, request.body, FALSE)
         IN  [status |-> r.status, registry |-> r.registry,
              data |-> IF r.status = 200
                         THEN r.registry[FindOwned(r.registry, request.id, "u1")]
                         ELSE NoData]
  ELSE LET r == deleteProject(registry, "u1", request.id, FALSE)
       IN  [status |-> r.status, registry |-> r.registry, data |-> NoData]

\* the server handles a request that was sent
Serve ==
  \E request \in {r \in page.requests : r.pc = "sent"} :
    LET r == served(projects, request)
    IN  /\ Len(r.registry) <= PageMaxProjects
        /\ projects' = r.registry
        /\ page' = [page EXCEPT !.requests =
                      (@ \ {request})
                        \cup {[request EXCEPT !.pc = "answered",
                                              !.status = r.status,
                                              !.data = r.data]}]
        /\ last' = [op |-> "served", request |-> request, status |-> r.status]
        /\ UNCHANGED universe

\* what a handler does after its await: the page's state after it, from the
\* state before and the answered request
resumed(state, request) ==
  IF request.kind = "create"
    THEN IF request.status = 200
           THEN [state EXCEPT
                   !.projects = <<request.data>> \o request.projects,
                   !.selectedProject = request.data]
           ELSE state
  ELSE IF request.kind = "update"
    THEN IF request.status = 200
           THEN [state EXCEPT
                   !.projects = [i \in 1..Len(request.projects) |->
                                   IF request.projects[i]._id = request.id
                                     THEN request.data
                                     ELSE request.projects[i]],
                   !.selectedProject = request.data]
           ELSE IF request.selectedProject /= NoSelection
                  THEN [state EXCEPT !.selectedProject = request.selectedProject]
                  ELSE state
  ELSE IF request.status = 200
    THEN [state EXCEPT
            !.projects = SelectSeq(request.projects,
                                   LAMBDA p : p._id /= request.id),
            !.selectedProject =
               IF request.selectedProject /= NoSelection
                  /\ request.selectedProject._id = request.id
                 THEN NoSelection ELSE @]
    ELSE state

\* the response of an answered request is delivered: its handler goes on
Deliver ==
  \E request \in {r \in page.requests : r.pc = "answered"} :
    /\ page' = [resumed(page, request) EXCEPT !.requests = @ \ {request}]
    /\ last' = [op |-> "delivered", request |-> request]
    /\ UNCHANGED <<universe, projects>>

PageNext ==
  \/ PageCreate \/ PageSelect \/ PageAddEndpoint \/ PageToggle \/ PageDelete
  \/ Serve \/ Deliver

PageSpec == PageInit /\ [][PageNext]_vars

(***************************************************************************)
(* C29: the selected project is a project of the list.                     *)
(***************************************************************************)
\* C29: under every interleaving of create, update and delete requests and
\* their responses, selectedProject is null or a project whose _id is in the
\* projects list
C29_SelectedIsListed ==
  \/ page.selectedProject = NoSelection
  \/ \E i \in 1..Len(page.projects) :
        page.projects[i]._id = page.selectedProject._id


(***************************************************************************)
(* C30: an edit leaves alone what it did not change.                       *)
(***************************************************************************)
EditedFields == {"name", "baseUrl", "endpoints", "authentication"}

\* the update request the server handled in this step, successfully
ServedUpdate(request) ==
  /\ request \in page.requests
  /\ request.pc = "sent"
  /\ request.kind = "update"
  /\ page'.requests \ page.requests =
       {[request EXCEPT !.pc = "answered", !.status = 200,
                        !.data = served(projects, request).data]}
  /\ projects' = served(projects, request).registry

\* the fields the edit changed: where what it sent differs from the project
\* it was made on
ChangedBy(request) ==
  {f \in EditedFields : request.body[f] /= request.selectedProject[f]}

\* C30: when an edit of a project is acknowledged, the fields of the stored
\* project that the edit did not itself change keep their stored values
EditKeepsOtherFields ==
  \A request \in page.requests :
    ServedUpdate(request) =>
      \A i \in 1..Len(projects) :
        projects[i]._id = request.id =>
          \A f \in EditedFields \ ChangedBy(request) :
            projects'[i][f] = projects[i][f]

C30_EditKeepsOtherFields == [][EditKeepsOtherFields]_vars

====
